---------------------------- MODULE Spec2Model ----------------------------
(***************************************************************************)
(* Harvester App: ingestion of harvester production reports, aggregation   *)
(* by (species, DBH class), per-bin and legacy pricing, and the bulk       *)
(* importer of the legacy price table.                                     *)
(*                                                                         *)
(* The repository holds two copies of the application component:           *)
(*   src/unnamed/part_000  (append-capable uploads, applyBulkPricing)      *)
(*   src/src/App.tsx       (uploads always replace, no applyBulkPricing)   *)
(* The variable build fixes which copy a behaviour runs.                   *)
(*                                                                         *)
(* Numbers.  Every number read from text (parseNumber) is kept as an       *)
(* integer count of hundredths: 0.8 m3 is 80, a DBH of 150 mm is 15000, a  *)
(* price of 110 kr is 11000.  Two values of this grid differ by at least   *)
(* 0.01, so the importer's 1e-6 tolerance is decided exactly.  Quotients   *)
(* (price per m3, averages) are exact fractions [n, d] in lowest terms;    *)
(* the binary rounding of JavaScript numbers is not modelled.  The         *)
(* forwarding costs of the totals are values r + q * sqrt(standRemovalUT)  *)
(* with fractions r and q; the forwarding-cost fields of a row are left    *)
(* out.                                                                    *)
(***************************************************************************)
EXTENDS Integers, Sequences, FiniteSets, TLC

(***************************************************************************)
(* Bounds of the model.                                                    *)
(***************************************************************************)
MaxStems == 3
MaxBatch == 1
MaxLines == 2

(***************************************************************************)
(* Arithmetic helpers.                                                     *)
(***************************************************************************)
Abs(x) == IF x < 0 THEN -x ELSE x

Min(a, b) == IF a < b THEN a ELSE b

RECURSIVE GCD(_, _)
GCD(a, b) == IF b = 0 THEN a ELSE GCD(b, a % b)

\* n/d divided through by g, with a positive denominator
LowestTerms(n, d, g) ==
  IF d < 0 THEN [n |-> -(n \div g), d |-> -(d \div g)]
  ELSE [n |-> n \div g, d |-> d \div g]

\* the fraction n/d (d # 0) in lowest terms
Rat(n, d) == LowestTerms(n, d, GCD(Abs(n), Abs(d)))

RZero == [n |-> 0, d |-> 1]

\* a + b over the common denominator a.d * b.d / g, g the GCD of a.d and b.d
RAddOver(a, b, g) == Rat(a.n * (b.d \div g) + b.n * (a.d \div g), (a.d \div g) * b.d)

RAdd(a, b) == RAddOver(a, b, GCD(a.d, b.d))

\* a * b, cancelling g1 = GCD(a.n, b.d) and g2 = GCD(b.n, a.d) first
RMulBy(a, b, g1, g2) == Rat((a.n \div g1) * (b.n \div g2), (a.d \div g2) * (b.d \div g1))

RMul(a, b) == RMulBy(a, b, GCD(Abs(a.n), b.d), GCD(Abs(b.n), a.d))

RECURSIVE SumSeq(_)
SumSeq(s) == IF s = <<>> THEN 0 ELSE Head(s) + SumSeq(Tail(s))

RECURSIVE RSumSeq(_)
RSumSeq(s) == IF s = <<>> THEN RZero ELSE RAdd(Head(s), RSumSeq(Tail(s)))

\* index of the first element of s satisfying Test, 0 when there is none
\* (Array.prototype.find / findIndex)
FirstIndex(s, Test(_)) ==
  IF \E i \in 1..Len(s) : Test(s[i])
  THEN CHOOSE i \in 1..Len(s) : Test(s[i]) /\ \A j \in 1..(i - 1) : ~Test(s[j])
  ELSE 0

(***************************************************************************)
(* Text that the program parses as a number: an absent attribute, text     *)
(* that is no number, or a decimal literal (optional minus, integer part,  *)
(* up to two fraction digits after "." or ",").                            *)
(***************************************************************************)
Absent == [k |-> "absent", neg |-> FALSE, whole |-> 0, frac |-> <<>>, sep |-> "."]
Empty  == [k |-> "empty", neg |-> FALSE, whole |-> 0, frac |-> <<>>, sep |-> "."]
Junk   == [k |-> "junk", neg |-> FALSE, whole |-> 0, frac |-> <<>>, sep |-> "."]
Num(w, f) == [k |-> "num", neg |-> FALSE, whole |-> w, frac |-> f, sep |-> "."]
Minus(t) == [t EXCEPT !.neg = TRUE]
Comma(t) == [t EXCEPT !.sep = ","]

\* parseNumber: null -> 0, "" -> 0, unparseable -> 0, otherwise the numeric
\* value, a decimal comma read as a decimal point
parseNumber(value) ==
  IF value.k # "num" THEN 0
  ELSE LET f == value.frac
           fr == IF Len(f) = 0 THEN 0
                 ELSE IF Len(f) = 1 THEN 10 * f[1]
                 ELSE 10 * f[1] + f[2]
           m == value.whole * 100 + fr
       IN  IF value.neg THEN -m ELSE m

\* parseFloat(raw) || 0, and Number.isFinite(parseFloat(raw)) ? parsed : 0:
\* parseFloat stops at a decimal comma; NaN becomes 0
parseFloatOrZero(raw) ==
  IF raw.k # "num" THEN 0
  ELSE IF raw.sep = "," /\ Len(raw.frac) > 0
       THEN (IF raw.neg THEN -(raw.whole * 100) ELSE raw.whole * 100)
       ELSE parseNumber(raw)

\* an optional value: undefined / null, or a present value
None == [some |-> FALSE, v |-> 0]
Some(x) == [some |-> TRUE, v |-> x]

(***************************************************************************)
(* Program constants.                                                      *)
(***************************************************************************)
Builds == {"part_000", "App"}

SUPPORTED_SPECIES == <<"Tall", "Gran", "Lov">>

\* 0.2, 0.25, ..., 0.8, 0.9, 1 in hundredths of a cubic metre
LEGACY_AVERAGE_VOLUMES ==
  <<20, 25, 30, 35, 40, 45, 50, 55, 60, 65, 70, 75, 80, 90, 100>>

\* thresholds in millimetres
DBH_CLASSES ==
  <<80, 100, 120, 140, 160, 180, 200, 220, 240, 260, 280, 300, 320, 340,
    360, 380, 400, 420, 440, 460, 480, 500, 520, 540, 560, 580>>

\* the default divisors, in hundredths (2.5 is 250); 0 stands for null
DefaultTall ==
  <<250, 380, 620, 920, 1270, 1680, 2110, 2530, 2960, 3380, 3810, 4200, 4660,
    4970, 5340, 5540, 5720, 5690, 6010, 5760, 5470, 5780, 5480, 5400, 5700, 5780>>

DefaultGran ==
  <<340, 510, 760, 1070, 1410, 1780, 2180, 2570, 3030, 3470, 3890, 4320, 4700,
    4950, 5180, 5310, 5410, 5390, 5420, 5270, 5260, 5180, 5040, 5410, 4840, 4680>>

DefaultLov(b) ==
  <<280, 410, 610, 830, 1110, 1400, 1670, 2060, 2320, 2620, 2830, 3100, 3390,
    3410, 3610, 3890, 3960, 3830, 3900, 4240, 4100>>
  \o (IF b = "part_000" THEN <<4100, 4100, 4100, 4100, 4100>>
                        ELSE <<0, 0, 0, 0, 0>>)

\* a JSON array of numbers (0 written for null), as stored or as a literal
JsonArray(items) ==
  [isArray |-> TRUE,
   items |-> [i \in 1..Len(items) |->
                IF items[i] = 0 THEN [t |-> "null", v |-> 0]
                ELSE [t |-> "number", v |-> items[i]]]]

NotAnArray == [isArray |-> FALSE, items |-> <<>>]

DEFAULT_SPECIES_DIVISORS(b) ==
  [kind |-> "object",
   Tall |-> JsonArray(DefaultTall),
   Gran |-> JsonArray(DefaultGran),
   Lov  |-> JsonArray(DefaultLov(b))]

(***************************************************************************)
(* Species classifier.  A species name is modelled by the set of keywords  *)
(* that occur in its normalised form (NFD, diacritics stripped, upper      *)
(* case); the classifier only tests for occurrences of keywords.           *)
(***************************************************************************)
TallKeywords == {"TALL", "PINE", "LARK"}
GranKeywords == {"GRAN", "SPRUCE", "BARKBORRE"}
LovKeywords  == {"LOV", "BJORK", "ASP", "BOK", "EK", "OVR"}

\* C13 mutant: the spruce family tested before the pine family
mapSpeciesNameToCategory_GranFirst(rawName) ==
  IF ~rawName.some \/ rawName.v.empty THEN "Lov"
  ELSE IF rawName.v.kw \cap GranKeywords # {} THEN "Gran"
  ELSE IF rawName.v.kw \cap TallKeywords # {} THEN "Tall"
  ELSE "Lov"

\* rawName: None (undefined), or Some([empty, kw]) with kw the keywords found
mapSpeciesNameToCategory(rawName) ==
  IF ~rawName.some \/ rawName.v.empty THEN "Lov"
  ELSE IF rawName.v.kw \cap TallKeywords # {} THEN "Tall"
  ELSE IF rawName.v.kw \cap GranKeywords # {} THEN "Gran"
  ELSE IF rawName.v.kw \cap LovKeywords # {} THEN "Lov"
  ELSE "Lov"

Name(kw) == Some([empty |-> FALSE, kw |-> kw])
EmptyName == Some([empty |-> TRUE, kw |-> {}])

(***************************************************************************)
(* Diameter binner.  dbh is optional and in hundredths of a millimetre;    *)
(* the result is an optional threshold in millimetres.                     *)
(***************************************************************************)
\* C1 mutant: the guard on an absent or non-positive diameter left out, so
\* that find() decides: a non-positive diameter lands in the first class, an
\* absent one (undefined <= threshold is false) in the last
resolveDbhClass_NoGuard(dbh) ==
  IF ~dbh.some THEN Some(DBH_CLASSES[Len(DBH_CLASSES)])
  ELSE LET i == FirstIndex(DBH_CLASSES, LAMBDA threshold : dbh.v <= threshold * 100)
       IN  IF i # 0 THEN Some(DBH_CLASSES[i])
           ELSE Some(DBH_CLASSES[Len(DBH_CLASSES)])

\* C22 mutant: a diameter above every threshold lands in the first class
resolveDbhClass_WrapFirst(dbh) ==
  IF ~dbh.some \/ dbh.v <= 0 THEN None
  ELSE LET i == FirstIndex(DBH_CLASSES, LAMBDA threshold : dbh.v <= threshold * 100)
       IN  IF i # 0 THEN Some(DBH_CLASSES[i])
           ELSE Some(DBH_CLASSES[1])

\* C12 mutant: dbh < threshold in place of dbh <= threshold
resolveDbhClass_Strict(dbh) ==
  IF ~dbh.some \/ dbh.v <= 0 THEN None
  ELSE LET i == FirstIndex(DBH_CLASSES, LAMBDA threshold : dbh.v < threshold * 100)
       IN  IF i # 0 THEN Some(DBH_CLASSES[i])
           ELSE Some(DBH_CLASSES[Len(DBH_CLASSES)])

resolveDbhClass(dbh) ==
  IF ~dbh.some \/ dbh.v <= 0 THEN None
  ELSE LET i == FirstIndex(DBH_CLASSES, LAMBDA threshold : dbh.v <= threshold * 100)
       IN  IF i # 0 THEN Some(DBH_CLASSES[i])
           ELSE Some(DBH_CLASSES[Len(DBH_CLASSES)])

\* DBH_CLASSES.indexOf(dbhClass), 1-based; 0 when absent
ClassIndex(dbhClass) == FirstIndex(DBH_CLASSES, LAMBDA threshold : threshold = dbhClass)

(***************************************************************************)
(* Divisor table: per species, one optional positive divisor per class.    *)
(***************************************************************************)
ensureDivisorArray(input) ==
  [index \in 1..Len(DBH_CLASSES) |->
     IF input.isArray /\ index <= Len(input.items)
        /\ input.items[index].t = "number" /\ input.items[index].v > 0
     THEN Some(input.items[index].v)
     ELSE None]

\* input: a parsed JSON value, or the null of normaliseDivisors(null)
normaliseDivisors(input, b) ==
  IF input.kind # "object"
  THEN [Tall |-> ensureDivisorArray(DEFAULT_SPECIES_DIVISORS(b).Tall),
        Gran |-> ensureDivisorArray(DEFAULT_SPECIES_DIVISORS(b).Gran),
        Lov  |-> ensureDivisorArray(DEFAULT_SPECIES_DIVISORS(b).Lov)]
  ELSE [Tall |-> ensureDivisorArray(input.Tall),
        Gran |-> ensureDivisorArray(input.Gran),
        Lov  |-> ensureDivisorArray(input.Lov)]

JsonNull == [kind |-> "null", Tall |-> NotAnArray, Gran |-> NotAnArray, Lov |-> NotAnArray]

\* raw: the localStorage item: absent, text that is no JSON, or a JSON value
loadSpeciesDivisors(raw, b) ==
  IF raw.kind \in {"absent", "malformed"} THEN normaliseDivisors(JsonNull, b)
  ELSE normaliseDivisors(raw, b)

(***************************************************************************)
(* Record extractor.                                                       *)
(***************************************************************************)
\* normaliseCategory on the category spellings used by the sample documents
normaliseCategory(value) ==
  CASE value = "M3SUB"      -> "m3sub"
    [] value = " m3sub "    -> "m3sub"
    [] value = "m3  fub"    -> "m3 fub"
    [] value = "M3FUB"      -> "m3fub"
    [] value = "m3 (Price)" -> "m3 (price)"
    [] value = "absent"     -> ""
    [] OTHER                -> value

preferredCategories == <<"m3sub", "m3 fub", "m3fub", "m3 (price)", "m3ub", "m3sob">>

RECURSIVE FirstPositive(_)
\* the first strictly positive parsed value of a list of texts, 0 if none
FirstPositive(texts) ==
  IF texts = <<>> THEN 0
  ELSE IF parseNumber(Head(texts)) > 0 THEN parseNumber(Head(texts))
  ELSE FirstPositive(Tail(texts))

\* the parsed text of node i, 0 when there is no such node (i = 0)
NodeVolume(volumeNodes, i) == IF i = 0 THEN 0 ELSE parseNumber(volumeNodes[i].text)

\* the parsed text of the first node carrying the category, 0 if none
CategoryVolume(category, volumeNodes) ==
  NodeVolume(volumeNodes,
             FirstIndex(volumeNodes, LAMBDA node : normaliseCategory(node.cat) = category))

RECURSIVE PreferredVolume(_, _)
\* the loop over preferredCategories: per category the first node carrying it
PreferredVolume(cats, volumeNodes) ==
  IF cats = <<>> THEN 0
  ELSE IF CategoryVolume(Head(cats), volumeNodes) > 0
       THEN CategoryVolume(Head(cats), volumeNodes)
       ELSE PreferredVolume(Tail(cats), volumeNodes)

RECURSIVE FirstPositiveOf(_)
\* the first strictly positive value of a list of numbers, 0 if none
FirstPositiveOf(values) ==
  IF values = <<>> THEN 0
  ELSE IF Head(values) > 0 THEN Head(values)
  ELSE FirstPositiveOf(Tail(values))

\* logEl: [nodes: LogVolume sub-elements [cat, text], attrs: the attributes];
\* the candidates in the order the code tries them
resolveLogVolume(logEl) ==
  FirstPositiveOf(
    <<PreferredVolume(preferredCategories, logEl.nodes),
      FirstPositive([i \in 1..Len(logEl.nodes) |-> logEl.nodes[i].text]),
      FirstPositive(<<logEl.attrs.Volume, logEl.attrs.VolumeM3,
                      logEl.attrs.VolumeUnderBark, logEl.attrs.VolumeOverBark>>),
      parseNumber(IF logEl.attrs.VolumeDm3.k # "absent"
                  THEN logEl.attrs.VolumeDm3 ELSE logEl.attrs.VolumeDM3) \div 1000>>)

\* the dbh of a stem: the DBH attribute when positive, else the text of the
\* nested DBH element when positive, else undefined
stemDbh(attrValue, textValue) ==
  IF attrValue > 0 THEN Some(attrValue)
  ELSE IF textValue > 0 THEN Some(textValue) ELSE None

\* C25 mutant: a positive tree-level volume is preferred to the logs
finalStemVolume_TreeFirst(aggregatedLogVolume, stemVolume) ==
  IF stemVolume > 0 THEN stemVolume ELSE aggregatedLogVolume

\* aggregatedLogVolume > 0 ? aggregatedLogVolume : stemVolume
finalStemVolume(aggregatedLogVolume, stemVolume) ==
  IF aggregatedLogVolume > 0 THEN aggregatedLogVolume ELSE stemVolume

\* one Stem element of a document whose species dictionary is speciesNameByKey
ParseStem(stemEl, speciesNameByKey) ==
  [stem_volume |->
     finalStemVolume(
       SumSeq([i \in 1..Len(stemEl.logs) |-> resolveLogVolume(stemEl.logs[i])]),
       FirstPositive(<<stemEl.StemVolume, stemEl.Volume,
                       stemEl.VolumeUnderBark, stemEl.VolumeOverBark>>)),
   dbh |-> stemDbh(parseNumber(stemEl.DBH), parseNumber(stemEl.dbhElement)),
   speciesCategory |->
     mapSpeciesNameToCategory(IF stemEl.speciesGroupKey \in DOMAIN speciesNameByKey
                              THEN speciesNameByKey[stemEl.speciesGroupKey]
                              ELSE None)]

RECURSIVE CountLogs(_)
CountLogs(stemEls) ==
  IF stemEls = <<>> THEN 0 ELSE Len(Head(stemEls).logs) + CountLogs(Tail(stemEls))

\* file: [readable, defs: species dictionary, stemEls]; a file whose text
\* cannot be read makes parseHPRFile throw (ok = FALSE)
parseHPRFile(file) ==
  IF ~file.readable THEN [ok |-> FALSE, stems |-> <<>>, logCount |-> 0]
  ELSE [ok |-> TRUE,
        stems |-> [i \in 1..Len(file.stemEls) |-> ParseStem(file.stemEls[i], file.defs)],
        logCount |-> CountLogs(file.stemEls)]

(***************************************************************************)
(* Aggregator and pricing engine.                                          *)
(***************************************************************************)
\* the bin after current.stems.push(stem) and the two additions
PushStem(current, stem, perStemTime) ==
  [stems |-> Append(current.stems, stem),
   totalVolume |-> current.totalVolume + stem.stem_volume,
   totalTime |-> current.totalTime + perStemTime]

\* speciesMap.get(dbhClass) ?? { stems: [], totalTime: 0, totalVolume: 0 }
BinOrEmpty(speciesMap, dbhClass) ==
  IF dbhClass \in DOMAIN speciesMap THEN speciesMap[dbhClass]
  ELSE [stems |-> <<>>, totalTime |-> 0, totalVolume |-> 0]

\* the map of one species after speciesMap.set(dbhClass, current)
SetBin(speciesMap, dbhClass, current) ==
  [c \in DOMAIN speciesMap \cup {dbhClass} |->
     IF c = dbhClass THEN current ELSE speciesMap[c]]

\* the body of stems.forEach for one stem whose class is dbhClass
AddStem(aggregated, stem, dbhClass, perStemTime) ==
  IF ~dbhClass.some \/ dbhClass.v = 0 THEN aggregated
  ELSE [aggregated EXCEPT ![stem.speciesCategory] =
          SetBin(@, dbhClass.v, PushStem(BinOrEmpty(@, dbhClass.v), stem, perStemTime))]

RECURSIVE AggregateFrom(_, _, _)
\* the forEach of aggregateBySpeciesAndDbh: rest are the stems still to visit
AggregateFrom(rest, perStemTime, aggregated) ==
  IF rest = <<>> THEN aggregated
  ELSE AggregateFrom(Tail(rest), perStemTime,
                     AddStem(aggregated, Head(rest), resolveDbhClass(Head(rest).dbh),
                             perStemTime))

EmptyMap == [c \in {} |-> 0]

\* C19 mutant: the configured time taken without the cap of 30 seconds
aggregateBySpeciesAndDbh_Uncapped(stemList, p) ==
  IF Len(stemList) = 0 THEN None
  ELSE Some(AggregateFrom(stemList, p.maxPerTreeTime,
                          [Tall |-> EmptyMap, Gran |-> EmptyMap, Lov |-> EmptyMap]))

\* null (None) for an empty dataset, otherwise the bins per species
aggregateBySpeciesAndDbh(stemList, p) ==
  IF Len(stemList) = 0 THEN None
  ELSE Some(AggregateFrom(stemList, Min(p.maxPerTreeTime, 3000),
                          [Tall |-> EmptyMap, Gran |-> EmptyMap, Lov |-> EmptyMap]))

\* C6 mutant: the scan replaces its best on an equal difference too
RECURSIVE NearestFrom_LastWins(_, _, _, _)
NearestFrom_LastWins(i, nearest, volume, prices) ==
  IF i > Len(prices) THEN nearest
  ELSE LET diff == Abs(prices[i].averageVolume * volume.d - volume.n)
           minDiff == Abs(prices[nearest].averageVolume * volume.d - volume.n)
       IN  IF diff <= minDiff THEN NearestFrom_LastWins(i + 1, i, volume, prices)
           ELSE NearestFrom_LastWins(i + 1, nearest, volume, prices)

\* the scan of getLegacyPriceForVolume from entry i on; volume is a fraction
RECURSIVE NearestFrom(_, _, _, _)
NearestFrom(i, nearest, volume, prices) ==
  IF i > Len(prices) THEN nearest
  ELSE LET diff == Abs(prices[i].averageVolume * volume.d - volume.n)
           minDiff == Abs(prices[nearest].averageVolume * volume.d - volume.n)
       IN  IF diff < minDiff THEN NearestFrom(i + 1, i, volume, prices)
           ELSE NearestFrom(i + 1, nearest, volume, prices)

\* C5 mutant: the guard on a zero or negative volume left out
getLegacyPriceForVolume_NoGuard(volume, prices) ==
  IF Len(prices) = 0 THEN 0
  ELSE prices[NearestFrom(2, 1, volume, prices)].price

getLegacyPriceForVolume(volume, prices) ==
  IF volume.n = 0 \/ volume.n <= 0 \/ Len(prices) = 0 THEN 0
  ELSE prices[NearestFrom(2, 1, volume, prices)].price

RECURSIVE SortedKeys(_)
\* Array.from(keys).sort((a, b) => a - b)
SortedKeys(keys) ==
  IF keys = {} THEN <<>>
  ELSE LET m == CHOOSE k \in keys : \A o \in keys : k <= o
       IN  <<m>> \o SortedKeys(keys \ {m})

SpeciesRank(species) == FirstIndex(SUPPORTED_SPECIES, LAMBDA x : x = species)

\* C21 mutant: the comparator looks at the diameter class only
CompareRows_ClassOnly(a, b) == a.dbhClass - b.dbhClass

\* the comparator of baseResults.sort: negative, zero or positive
CompareRows(a, b) ==
  IF a.species = b.species THEN a.dbhClass - b.dbhClass
  ELSE SpeciesRank(a.species) - SpeciesRank(b.species)

RECURSIVE InsertRow(_, _)
InsertRow(sorted, row) ==
  IF sorted = <<>> THEN <<row>>
  ELSE IF CompareRows(row, Head(sorted)) < 0 THEN <<row>> \o sorted
  ELSE <<Head(sorted)>> \o InsertRow(Tail(sorted), row)

RECURSIVE SortRows(_)
\* a stable sort by CompareRows
SortRows(rows) ==
  IF rows = <<>> THEN <<>>
  ELSE InsertRow(SortRows(SubSeq(rows, 1, Len(rows) - 1)), rows[Len(rows)])

\* the divisor cell of a bin: speciesDivisors[species]?.[classIndex] ?? null
divisorFor(species, dbhClass, divisors) ==
  LET classIndex == ClassIndex(dbhClass)
  IN  IF classIndex >= 1 THEN divisors[species][classIndex] ELSE None

\* C3 mutant: the quotient taken the wrong way round
pricePerCubicMeter_Inverted(divisor, p) ==
  IF divisor.some /\ divisor.v > 0 /\ p.harvestingCostRate > 0
  THEN Rat(divisor.v, p.harvestingCostRate)
  ELSE RZero

\* C4 mutant: an unset divisor read as a divisor of 1
pricePerCubicMeter_UnsetIsOne(divisor, p) ==
  IF divisor.some /\ divisor.v > 0 THEN Rat(p.harvestingCostRate, divisor.v)
  ELSE Rat(p.harvestingCostRate, 100)

\* divisor && divisor > 0 ? params.harvestingCostRate / divisor : 0
pricePerCubicMeter(divisor, p) ==
  IF divisor.some /\ divisor.v > 0 THEN Rat(p.harvestingCostRate, divisor.v)
  ELSE RZero

\* a ResultRow of the bin data, priced at price per cubic metre
RowAt(species, dbhClass, data, p, price) ==
  [species |-> species,
   dbhClass |-> dbhClass,
   stems |-> Len(data.stems),
   totalTime |-> data.totalTime,
   totalVolume |-> data.totalVolume,
   productivity |-> IF data.totalTime > 0
                    THEN Rat(data.totalVolume * 3600, data.totalTime) ELSE RZero,
   harvestingCost |-> IF data.totalVolume > 0
                      THEN RMul(Rat(data.totalTime, data.totalVolume),
                                Rat(p.harvestingCostRate, 360000))
                      ELSE RZero,
   pricePerCubicMeter |-> price,
   totalPrice |-> RMul(price, Rat(data.totalVolume, 100))]

\* one ResultRow from a bin
MakeRow(species, dbhClass, data, p, divisors) ==
  RowAt(species, dbhClass, data, p,
        pricePerCubicMeter(divisorFor(species, dbhClass, divisors), p))

\* sortedDbhs.forEach for one species
RowsOf(species, sortedDbhs, speciesData, p, divisors) ==
  [i \in 1..Len(sortedDbhs) |->
     MakeRow(species, sortedDbhs[i], speciesData[sortedDbhs[i]], p, divisors)]

SpeciesRows(species, aggregated, p, divisors) ==
  RowsOf(species, SortedKeys(DOMAIN aggregated[species]), aggregated[species], p, divisors)

\* Values r + q * sqrt(standRemovalUT), r and q fractions: the forwarding
\* costs of a run, in which Math.sqrt(standRemoval) stays symbolic
SurdZero == [rat |-> RZero, surd |-> RZero]
SurdScale(x, r) == [rat |-> RMul(x.rat, r), surd |-> RMul(x.surd, r)]
SurdPlus(x, r) == [rat |-> RAdd(x.rat, r), surd |-> x.surd]

\* (k1 * (5.7 + k2 * standRemoval + c11 * sqrt(standRemoval))) / standRemoval,
\* 0 when standRemoval is not positive
forwardingTimeFactor(p) ==
  IF p.standRemovalUT > 0
  THEN [rat |-> RMul(RMul(Rat(p.k1, 100), Rat(57000 + p.k2 * p.standRemovalUT, 10000)),
                     Rat(100, p.standRemovalUT)),
        surd |-> RMul(RMul(Rat(p.k1, 100), Rat(p.c11, 100)), Rat(100, p.standRemovalUT))]
  ELSE SurdZero

\* (forwardingTimeFactor / 60) * forwardingSK + (skiddingDistanceSA / 100) * 4
forwardingCostPerCubicMeter(p) ==
  SurdPlus(SurdScale(SurdScale(forwardingTimeFactor(p), Rat(1, 60)), Rat(p.forwardingSK, 100)),
           Rat(p.skiddingDistanceSA * 4, 10000))

\* C20 mutant: the combined total without the forwarding cost
Summaries_NoForwarding(baseResults, totalStems, totalVolume, totalPrice, averageVolumePerStem, legacyPrice, forwarding) ==
  [ran |-> TRUE,
   results |-> baseResults,
   newTotals |-> Some([totalStems |-> totalStems,
                       totalVolume |-> totalVolume,
                       averagePrice |-> IF totalVolume > 0
                                        THEN RMul(totalPrice, Rat(100, totalVolume))
                                        ELSE RZero,
                       totalPrice |-> totalPrice,
                       forwardingCostPerCubicMeter |-> forwarding,
                       totalForwardingCost |-> SurdScale(forwarding, Rat(totalVolume, 100)),
                       combinedTotal |-> SurdPlus(SurdZero, totalPrice)]),
   oldModelSummary |-> Some([totalStems |-> totalStems,
                             totalVolume |-> totalVolume,
                             averageVolume |-> averageVolumePerStem,
                             averagePrice |-> legacyPrice,
                             totalPrice |-> legacyPrice * totalVolume])]

\* the two summaries from the sums, the legacy price and the forwarding cost
\* per cubic metre of a run
Summaries(baseResults, totalStems, totalVolume, totalPrice, averageVolumePerStem, legacyPrice, forwarding) ==
  [ran |-> TRUE,
   results |-> baseResults,
   newTotals |-> Some([totalStems |-> totalStems,
                       totalVolume |-> totalVolume,
                       averagePrice |-> IF totalVolume > 0
                                        THEN RMul(totalPrice, Rat(100, totalVolume))
                                        ELSE RZero,
                       totalPrice |-> totalPrice,
                       forwardingCostPerCubicMeter |-> forwarding,
                       totalForwardingCost |-> SurdScale(forwarding, Rat(totalVolume, 100)),
                       combinedTotal |->
                         SurdPlus(SurdScale(forwarding, Rat(totalVolume, 100)), totalPrice)]),
   oldModelSummary |-> Some([totalStems |-> totalStems,
                             totalVolume |-> totalVolume,
                             averageVolume |-> averageVolumePerStem,
                             averagePrice |-> legacyPrice,
                             totalPrice |-> legacyPrice * totalVolume])]

\* averageVolumePerStem and the legacy lookup, from the sums
WithLegacy(baseResults, totalStems, totalVolume, totalPrice, averageVolumePerStem, prices, forwarding) ==
  Summaries(baseResults, totalStems, totalVolume, totalPrice, averageVolumePerStem,
            getLegacyPriceForVolume(averageVolumePerStem, prices), forwarding)

WithTotals(baseResults, totalStems, totalVolume, totalPrice, prices, forwarding) ==
  WithLegacy(baseResults, totalStems, totalVolume, totalPrice,
             IF totalStems > 0 THEN Rat(totalVolume, totalStems) ELSE RZero,
             prices, forwarding)

\* the part of calculateResults that follows baseResults.sort
Totalise(baseResults, prices, forwarding) ==
  WithTotals(baseResults,
             SumSeq([i \in 1..Len(baseResults) |-> baseResults[i].stems]),
             SumSeq([i \in 1..Len(baseResults) |-> baseResults[i].totalVolume]),
             RSumSeq([i \in 1..Len(baseResults) |-> baseResults[i].totalPrice]),
             prices, forwarding)

\* the rows pushed by SUPPORTED_SPECIES.forEach, sorted
PriceBins(aggregated, p, divisors, prices) ==
  IF ~aggregated.some
  THEN [ran |-> FALSE, results |-> <<>>, newTotals |-> None, oldModelSummary |-> None]
  ELSE Totalise(SortRows(SpeciesRows("Tall", aggregated.v, p, divisors)
                         \o SpeciesRows("Gran", aggregated.v, p, divisors)
                         \o SpeciesRows("Lov", aggregated.v, p, divisors)),
                prices, forwardingCostPerCubicMeter(p))

\* calculateResults: ran = FALSE is the early return on an empty dataset
calculateResults(stemList, p, divisors, prices) ==
  PriceBins(aggregateBySpeciesAndDbh(stemList, p), p, divisors, prices)

(***************************************************************************)
(* Legacy price table importer.  A pasted text is a sequence of lines; a   *)
(* line is a sequence of chunks separated by white space, each either a    *)
(* decimal literal (one match of the token pattern) or a word without      *)
(* digits (Junk).  A blank line is the empty sequence.                     *)
(***************************************************************************)
\* line.match(/-?\d+(?:[.,]\d+)?/g) ?? []
numericTokensForLine(line) == SelectSeq(line, LAMBDA chunk : chunk.k = "num")

\* text.trim() is empty: the text holds white space only
IsBlankText(text) == \A i \in 1..Len(text) : text[i] = <<>>

\* C7 mutant: a tolerance of 0.1 in place of 1e-6
Near_Wide(a, b) == Abs(a - b) < 10

\* Math.abs(a - b) < 1e-6 and > 1e-6 on values counted in hundredths
Near(a, b) == Abs(a - b) * 10000 < 1
Apart(a, b) == Abs(a - b) * 10000 > 1

\* LEGACY_AVERAGE_VOLUMES.findIndex(volume => Math.abs(volume - value) < 1e-6)
VolumeIndex(value) == FirstIndex(LEGACY_AVERAGE_VOLUMES, LAMBDA volume : Near(volume, value))

\* the state of one run of the updater, before its first line
ImportStart(previous) ==
  [next |-> previous, assigned |-> {}, fallbackIndex |-> 1, updated |-> FALSE,
   target |-> 0, token |-> Absent, wrote |-> FALSE]

\* C9 mutant: a price of zero is written too
attemptAssign_NonNegative(st, index, hasToken, priceToken) ==
  IF index < 1 \/ index > Len(st.next) \/ ~hasToken
  THEN [st EXCEPT !.target = index, !.token = Absent, !.wrote = FALSE]
  ELSE LET priceValue == parseNumber(priceToken)
       IN  IF priceValue >= 0
           THEN [st EXCEPT !.next[index].price = priceValue,
                           !.assigned = @ \cup {index},
                           !.updated = TRUE,
                           !.target = index, !.token = priceToken, !.wrote = TRUE]
           ELSE [st EXCEPT !.target = index, !.token = priceToken, !.wrote = FALSE]

\* attemptAssign(index, priceToken) on the loop state st; hasToken is false
\* for a null price token
attemptAssign(st, index, hasToken, priceToken) ==
  IF index < 1 \/ index > Len(st.next) \/ ~hasToken
  THEN [st EXCEPT !.target = index, !.token = Absent, !.wrote = FALSE]
  ELSE LET priceValue == parseNumber(priceToken)
       IN  IF priceValue > 0
           THEN [st EXCEPT !.next[index].price = priceValue,
                           !.assigned = @ \cup {index},
                           !.updated = TRUE,
                           !.target = index, !.token = priceToken, !.wrote = TRUE]
           ELSE [st EXCEPT !.target = index, !.token = priceToken, !.wrote = FALSE]

\* C23 mutant: the cursor does not skip the indices assigned by volume
SkipAssigned_None(fallbackIndex, assigned, n) == fallbackIndex

RECURSIVE SkipAssigned(_, _, _)
\* while (fallbackIndex < next.length && assigned.has(fallbackIndex)) fallbackIndex += 1
SkipAssigned(fallbackIndex, assigned, n) ==
  IF fallbackIndex <= n /\ fallbackIndex \in assigned
  THEN SkipAssigned(fallbackIndex + 1, assigned, n)
  ELSE fallbackIndex

\* a line that ends without a call of attemptAssign
SkipLine(st) == [st EXCEPT !.target = 0, !.token = Absent, !.wrote = FALSE]

\* tokens.find(test)?.token ?? priceToken, i being the index found (0: none)
TokenOr(tokens, i, priceToken) == IF i # 0 THEN tokens[i] ELSE priceToken

\* the price token of a line whose entry was assigned earlier in this import:
\* the first positive token that is not the matched volume, else priceToken
ReplacementToken(tokens, matched, matchedVolume, priceToken) ==
  TokenOr(tokens,
          FirstIndex(tokens, LAMBDA token :
            parseNumber(token) > 0
            /\ (~matched \/ matchedVolume = 0 \/ Apart(parseNumber(token), matchedVolume))),
          priceToken)

\* the end of the loop body: if (assigned.has(matchedIndex)) ...; attemptAssign
AssignLine(st, tokens, matchedIndex, matched, matchedVolume, priceToken) ==
  attemptAssign(st, matchedIndex, TRUE,
                IF matchedIndex \in st.assigned
                THEN ReplacementToken(tokens, matched, matchedVolume, priceToken)
                ELSE priceToken)

\* a line with a token equal to a breakpoint: the price token is the first
\* token that differs from the matched volume, else the last token
AssignMatched(st, tokens, matchedVolume) ==
  AssignLine(st, tokens, VolumeIndex(matchedVolume), TRUE, matchedVolume,
             TokenOr(tokens,
                     FirstIndex(tokens, LAMBDA token :
                                  Apart(parseNumber(token), matchedVolume)),
                     tokens[Len(tokens)]))

\* C18 mutant: a line that finds the cursor past the table adds an entry
AssignFallback_Push(st, tokens, fallbackIndex) ==
  IF fallbackIndex > Len(st.next)
  THEN [SkipLine(st) EXCEPT !.fallbackIndex = fallbackIndex,
                            !.next = Append(@, [averageVolume |-> 0,
                                                price |-> parseNumber(tokens[Len(tokens)])])]
  ELSE AssignLine([st EXCEPT !.fallbackIndex = fallbackIndex + 1], tokens,
                  fallbackIndex, FALSE, 0, tokens[Len(tokens)])

\* a line without a breakpoint token: fallbackIndex is the cursor after the
\* while loop; the line is dropped when the cursor is past the table
AssignFallback(st, tokens, fallbackIndex) ==
  IF fallbackIndex > Len(st.next)
  THEN [SkipLine(st) EXCEPT !.fallbackIndex = fallbackIndex]
  ELSE AssignLine([st EXCEPT !.fallbackIndex = fallbackIndex + 1], tokens,
                  fallbackIndex, FALSE, 0, tokens[Len(tokens)])

\* m is the index of the first positive token equal to a breakpoint (0: none)
AssignTokens(st, tokens, m) ==
  IF m # 0 THEN AssignMatched(st, tokens, parseNumber(tokens[m]))
  ELSE AssignFallback(st, tokens, SkipAssigned(st.fallbackIndex, st.assigned, Len(st.next)))

\* the loop body for the numeric tokens of a line
ProcessTokens(st, tokens) ==
  IF Len(tokens) = 0 THEN SkipLine(st)
  ELSE AssignTokens(st, tokens,
                    FirstIndex(tokens, LAMBDA token :
                      parseNumber(token) > 0 /\ VolumeIndex(parseNumber(token)) # 0))

\* the body of lines.forEach for one raw line
ProcessLine(st, rawLine) ==
  IF rawLine = <<>> THEN SkipLine(st)
  ELSE ProcessTokens(st, numericTokensForLine(rawLine))

RECURSIVE ApplyLines(_, _)
ApplyLines(st, lines) ==
  IF lines = <<>> THEN st ELSE ApplyLines(ProcessLine(st, Head(lines)), Tail(lines))

\* the updater passed to setLegacyPrices, run on the whole text
RunImport(previous, text) == ApplyLines(ImportStart(previous), text)

(***************************************************************************)
(* Sample documents: the files a user can select or drop.                  *)
(***************************************************************************)
NoLogAttrs ==
  [Volume |-> Absent, VolumeM3 |-> Absent, VolumeUnderBark |-> Absent,
   VolumeOverBark |-> Absent, VolumeDm3 |-> Absent, VolumeDM3 |-> Absent]

BareStem ==
  [speciesGroupKey |-> "none", DBH |-> Absent, dbhElement |-> Absent,
   StemVolume |-> Absent, Volume |-> Absent, VolumeUnderBark |-> Absent,
   VolumeOverBark |-> Absent, logs |-> <<>>]

\* spruce, DBH attribute 150, one log of 0.8 m3sub
StemSpruce ==
  [BareStem EXCEPT !.speciesGroupKey = "1", !.DBH = Num(150, <<>>),
     !.logs = <<[nodes |-> <<[cat |-> "M3SUB", text |-> Num(0, <<8>>)]>>,
                 attrs |-> NoLogAttrs]>>]

\* pine, nested DBH element 290, StemVolume 0.20, no logs
StemPine20 ==
  [BareStem EXCEPT !.speciesGroupKey = "2", !.dbhElement = Num(290, <<>>),
     !.StemVolume = Num(0, <<2, 0>>)]

\* pine, DBH attribute 290, one log with a Volume attribute of 0.25
StemPine25 ==
  [BareStem EXCEPT !.speciesGroupKey = "2", !.DBH = Num(290, <<>>),
     !.logs = <<[nodes |-> <<>>,
                 attrs |-> [NoLogAttrs EXCEPT !.Volume = Num(0, <<2, 5>>)]]>>]

\* pine without any diameter, Volume "0,5"
StemNoDbh ==
  [BareStem EXCEPT !.speciesGroupKey = "2", !.DBH = Junk,
     !.Volume = Comma(Num(0, <<5>>))]

\* no species key, DBH 170, no volume anywhere
StemZero == [BareStem EXCEPT !.DBH = Num(170, <<>>)]

SpeciesDefs == ("1" :> Name({"GRAN"})) @@ ("2" :> Name({"TALL"}))

Doc(stemEls) == [readable |-> TRUE, ext |-> "hpr", defs |-> SpeciesDefs, stemEls |-> stemEls]

FileSpruce == Doc(<<StemSpruce>>)
FilePine   == Doc(<<StemPine20, StemNoDbh>>)
FilePine2  == Doc(<<StemPine25>>)
FileZero   == Doc(<<StemZero>>)
FileNoDbh  == Doc(<<StemNoDbh>>)
FileEmpty  == Doc(<<>>)
FileBad    == [Doc(<<StemSpruce>>) EXCEPT !.readable = FALSE]
FileTxt    == [Doc(<<StemSpruce>>) EXCEPT !.ext = "txt"]

\* the files offered to the uploads of the life-cycle specification
UploadFiles == {FileSpruce, FilePine, FileNoDbh, FileEmpty, FileBad, FileTxt}

RECURSIVE SeqsUpTo(_, _)
\* the sequences over S of length at most n
SeqsUpTo(S, n) ==
  IF n = 0 THEN {<<>>}
  ELSE LET shorter == SeqsUpTo(S, n - 1)
       IN  shorter \cup {Append(q, x) : q \in shorter, x \in S}

\* the file selections of one upload, the empty selection included
Batches == SeqsUpTo(UploadFiles, MaxBatch)

(***************************************************************************)
(* State.                                                                  *)
(***************************************************************************)
VARIABLES
  build,            \* which copy of the component runs
  stems,            \* the in-memory dataset
  statusInfo,
  totalLogCount,
  results,
  legacyPrices,
  speciesDivisors,
  params,
  newTotals,
  oldModelSummary,
  showBulkPaste,
  bulkPriceText,
  hasUploaded,
  shouldAppend,
  imp,              \* the run of the bulk import updater in progress
  lastRun,          \* history: the inputs of the calculation run that stored results
  last,             \* history: the last upload that reached its dataset write,
                    \* with the files it was given; or the Reset just pressed
  jobs              \* what waits on the event loop: the uploads whose files are
                    \* being read, and whether the recalculation effect is queued

dataVars == <<stems, statusInfo, totalLogCount, hasUploaded, shouldAppend>>
calcVars == <<results, newTotals, oldModelSummary, lastRun>>
tableVars == <<legacyPrices, speciesDivisors, params>>
pasteVars == <<showBulkPaste, bulkPriceText, imp>>
vars == <<build, dataVars, calcVars, tableVars, pasteVars, last, jobs>>

Status(kind, a, b) == [kind |-> kind, a |-> a, b |-> b]
NoStatus == Status("null", 0, 0)

IdleImp ==
  [pc |-> "idle", caller |-> "none", eager |-> FALSE, text |-> <<>>, done |-> 0,
   st |-> ImportStart(<<>>)]

NoUpload == [op |-> "none", prev |-> <<>>, parsed |-> <<>>, files |-> <<>>]

ResetPressed == [NoUpload EXCEPT !.op = "reset"]

NoJobs == [uploads |-> {}, effect |-> FALSE]

DefaultParams ==
  [maxPerTreeTime |-> 60000, harvestingCostRate |-> 180000, forwardingSK |-> 150000,
   skiddingDistanceSA |-> 30000, standRemovalUT |-> 28000,
   k1 |-> 100, k2 |-> 73, c11 |-> 1145]

\* what localStorage may hold under 'speciesDivisors' when the app starts
StoredAbsent == [kind |-> "absent", Tall |-> NotAnArray, Gran |-> NotAnArray, Lov |-> NotAnArray]
StoredMalformed == [StoredAbsent EXCEPT !.kind = "malformed"]
StoredTable ==
  [kind |-> "object",
   Tall |-> JsonArray(<<250, 380>>),
   Gran |-> [isArray |-> TRUE,
             items |-> <<[t |-> "number", v |-> 340], [t |-> "string", v |-> 510],
                         [t |-> "number", v |-> 0 - 760], [t |-> "null", v |-> 0],
                         [t |-> "number", v |-> 2000]>>],
   Lov  |-> NotAnArray]

StoredValues == {StoredAbsent, StoredMalformed, StoredTable}

Init ==
  /\ build \in Builds
  /\ stems = <<>>
  /\ statusInfo = NoStatus
  /\ totalLogCount = 0
  /\ results = <<>>
  /\ legacyPrices = [i \in 1..Len(LEGACY_AVERAGE_VOLUMES) |->
                       [averageVolume |-> LEGACY_AVERAGE_VOLUMES[i], price |-> 0]]
  /\ \E raw \in StoredValues : speciesDivisors = loadSpeciesDivisors(raw, build)
  /\ params = DefaultParams
  /\ newTotals = None
  /\ oldModelSummary = None
  /\ showBulkPaste = FALSE
  /\ bulkPriceText = <<>>
  /\ hasUploaded = FALSE
  /\ shouldAppend = FALSE
  /\ imp = IdleImp
  /\ lastRun = None
  /\ last = NoUpload
  /\ jobs = NoJobs

(***************************************************************************)
(* The recalculation effect: after a handler changed the dataset or one of *)
(* the inputs of calculateResults, the component renders and the effect    *)
(* runs calculateResults when the dataset is not empty.                    *)
(***************************************************************************)
\* C16 mutant: the rows of a run are pushed after the rows already stored
StoreResults_Accumulate(r, stemList, p, divisors, prices) ==
  IF r.ran
  THEN /\ results' = results \o r.results
       /\ newTotals' = r.newTotals
       /\ oldModelSummary' = r.oldModelSummary
       /\ lastRun' = Some([stems |-> stemList, params |-> p,
                           speciesDivisors |-> divisors, legacyPrices |-> prices])
  ELSE UNCHANGED calcVars

\* the three setters at the end of calculateResults; nothing on the early return
StoreResults(r, stemList, p, divisors, prices) ==
  IF r.ran
  THEN /\ results' = r.results
       /\ newTotals' = r.newTotals
       /\ oldModelSummary' = r.oldModelSummary
       /\ lastRun' = Some([stems |-> stemList, params |-> p,
                           speciesDivisors |-> divisors, legacyPrices |-> prices])
  ELSE UNCHANGED calcVars

RunCalculation(stemList, p, divisors, prices) ==
  StoreResults(calculateResults(stemList, p, divisors, prices), stemList, p, divisors, prices)

RecalculateEffect(stemList, p, divisors, prices) ==
  IF Len(stemList) > 0 THEN RunCalculation(stemList, p, divisors, prices)
  ELSE UNCHANGED calcVars

(***************************************************************************)
(* Uploads.                                                                *)
(***************************************************************************)
\* C15 mutant: a file whose parse throws discards the records gathered so far
AddParsed_Abort(acc, r) ==
  IF r.ok THEN [stems |-> acc.stems \o r.stems, logCount |-> acc.logCount + r.logCount]
  ELSE [stems |-> <<>>, logCount |-> 0]

\* one iteration of the for loop of processFiles: a file whose parse throws
\* is logged and skipped
AddParsed(acc, r) ==
  IF r.ok THEN [stems |-> acc.stems \o r.stems, logCount |-> acc.logCount + r.logCount]
  ELSE acc

RECURSIVE ParseAll(_, _)
\* the for loop of processFiles: acc is [stems, logCount]
ParseAll(files, acc) ==
  IF files = <<>> THEN acc
  ELSE ParseAll(Tail(files), AddParsed(acc, parseHPRFile(Head(files))))

\* the dataset written by processFiles(selectedFiles, {append})
CombinedStems(selectedFiles, append) ==
  ParseAll(selectedFiles,
           [stems |-> IF append THEN stems ELSE <<>>,
            logCount |-> IF append THEN totalLogCount ELSE 0])

\* the writes of processFiles after its loop; parsed are the records of the
\* selected files alone
WriteDataset(combined, parsed, selectedFiles) ==
  /\ Len(combined.stems) <= MaxStems
  /\ stems' = combined.stems
  /\ totalLogCount' = (IF build = "part_000" THEN combined.logCount ELSE 0)
  /\ IF Len(combined.stems) > 0
     THEN /\ statusInfo' = Status("parsed", Len(combined.stems), combined.logCount)
          /\ hasUploaded' = TRUE
     ELSE /\ statusInfo' = Status("noStems", 0, 0)
          /\ hasUploaded' = FALSE
  /\ last' = [op |-> "upload", prev |-> stems, parsed |-> parsed, files |-> selectedFiles]
  /\ RecalculateEffect(combined.stems, params, speciesDivisors, legacyPrices)

\* processFiles from its first statement to its last, in one step
processFiles(selectedFiles, append) ==
  WriteDataset(CombinedStems(selectedFiles, append),
               ParseAll(selectedFiles, [stems |-> <<>>, logCount |-> 0]).stems,
               selectedFiles)

\* the change handler of the file input; the input is rendered while
\* hasUploaded is false
handleFileUpload(selectedFiles) ==
  /\ imp.pc = "idle"
  /\ ~hasUploaded
  /\ IF build = "part_000"
     THEN IF Len(selectedFiles) = 0
          THEN /\ shouldAppend' = FALSE
               /\ last' = NoUpload
               /\ UNCHANGED <<stems, statusInfo, totalLogCount, hasUploaded, calcVars>>
          ELSE /\ processFiles(selectedFiles, shouldAppend)
               /\ shouldAppend' = FALSE
     ELSE /\ processFiles(selectedFiles, FALSE)
          /\ UNCHANGED shouldAppend
  /\ UNCHANGED <<build, jobs, tableVars, pasteVars>>

\* the drop handler of the upload zone: only .hpr and .zip files are kept
handleFileDrop(files) ==
  LET droppedFiles == SelectSeq(files, LAMBDA file : file.ext \in {"hpr", "zip"})
  IN  /\ imp.pc = "idle"
      /\ ~hasUploaded
      /\ IF Len(droppedFiles) > 0
         THEN /\ processFiles(droppedFiles, build = "part_000" /\ shouldAppend)
              /\ IF build = "part_000" THEN shouldAppend' = FALSE
                 ELSE UNCHANGED shouldAppend
         ELSE /\ last' = NoUpload
              /\ UNCHANGED <<dataVars, calcVars>>
      /\ UNCHANGED <<build, jobs, tableVars, pasteVars>>

\* C30 mutant: Reset leaves both totals on the page
handleReset_KeepTotals ==
  /\ imp.pc = "idle"
  /\ stems' = <<>>
  /\ statusInfo' = NoStatus
  /\ results' = <<>>
  /\ totalLogCount' = 0
  /\ shouldAppend' = FALSE
  /\ hasUploaded' = FALSE
  /\ lastRun' = None
  /\ last' = ResetPressed
  /\ UNCHANGED <<build, jobs, oldModelSummary, newTotals, tableVars, pasteVars>>

handleReset ==
  /\ imp.pc = "idle"
  /\ stems' = <<>>
  /\ statusInfo' = NoStatus
  /\ results' = <<>>
  /\ oldModelSummary' = None
  /\ newTotals' = None
  /\ totalLogCount' = 0
  /\ shouldAppend' = FALSE
  /\ hasUploaded' = FALSE
  /\ lastRun' = None
  /\ last' = ResetPressed
  /\ UNCHANGED <<build, jobs, tableVars, pasteVars>>

\* "Upload another file": part_000 also arms the append flag
handleAddMoreFiles ==
  /\ imp.pc = "idle"
  /\ hasUploaded
  /\ hasUploaded' = FALSE
  /\ shouldAppend' = (build = "part_000")
  /\ last' = NoUpload
  /\ UNCHANGED <<build, jobs, stems, statusInfo, totalLogCount, calcVars, tableVars, pasteVars>>

\* the Calculate button, disabled while the dataset is empty
Calculate ==
  /\ imp.pc = "idle"
  /\ Len(stems) > 0
  /\ RunCalculation(stems, params, speciesDivisors, legacyPrices)
  /\ last' = NoUpload
  /\ UNCHANGED <<build, jobs, dataVars, tableVars, pasteVars>>

(***************************************************************************)
(* Edits of the tables and settings.                                       *)
(***************************************************************************)
\* C17 mutant: every number typed into a cell is stored, whatever its sign
updateDivisor_AnySign(species, index, raw) ==
  LET candidate == parseNumber(raw)
      parsedValue == IF raw.k = "num" THEN Some(candidate) ELSE None
      next == [speciesDivisors EXCEPT ![species][index] = parsedValue]
  IN  /\ imp.pc = "idle"
      /\ speciesDivisors' = next
      /\ RecalculateEffect(stems, params, next, legacyPrices)
      /\ last' = NoUpload
      /\ UNCHANGED <<build, jobs, dataVars, legacyPrices, params, pasteVars>>

\* AdminPage.updateDivisor: one cell of the divisor table (index is 1-based)
updateDivisor(species, index, raw) ==
  LET candidate == parseNumber(raw)
      parsedValue == IF raw.k # "empty" /\ raw.k = "num" /\ candidate > 0
                     THEN Some(candidate) ELSE None
      next == [speciesDivisors EXCEPT ![species][index] = parsedValue]
  IN  /\ imp.pc = "idle"
      /\ speciesDivisors' = next
      /\ RecalculateEffect(stems, params, next, legacyPrices)
      /\ last' = NoUpload
      /\ UNCHANGED <<build, jobs, dataVars, legacyPrices, params, pasteVars>>

\* AdminPage onReset
resetDivisors ==
  LET next == normaliseDivisors(DEFAULT_SPECIES_DIVISORS(build), build)
  IN  /\ imp.pc = "idle"
      /\ speciesDivisors' = next
      /\ RecalculateEffect(stems, params, next, legacyPrices)
      /\ last' = NoUpload
      /\ UNCHANGED <<build, jobs, dataVars, legacyPrices, params, pasteVars>>

\* the onChange of one price input of the legacy table
setLegacyPrice(index, raw) ==
  LET newPrice == parseFloatOrZero(raw)
      next == [i \in 1..Len(legacyPrices) |->
                 IF i = index THEN [legacyPrices[i] EXCEPT !.price = newPrice]
                 ELSE legacyPrices[i]]
  IN  /\ imp.pc = "idle"
      /\ legacyPrices' = next
      /\ RecalculateEffect(stems, params, speciesDivisors, next)
      /\ last' = NoUpload
      /\ UNCHANGED <<build, jobs, dataVars, speciesDivisors, params, pasteVars>>

\* the onChange of one settings input, and AdminPage.updateConstant
setParam(key, raw) ==
  LET next == [params EXCEPT ![key] = parseFloatOrZero(raw)]
  IN  /\ imp.pc = "idle"
      /\ params' = next
      /\ RecalculateEffect(stems, next, speciesDivisors, legacyPrices)
      /\ last' = NoUpload
      /\ UNCHANGED <<build, jobs, dataVars, legacyPrices, speciesDivisors, pasteVars>>

(***************************************************************************)
(* The paste panel and the bulk import.  The updater given to              *)
(* setLegacyPrices runs line by line (ImportLine); React runs it either    *)
(* inside the setLegacyPrices call (eager) or later while rendering, after *)
(* applyBulkPricing has returned: `updated` is read at the return, so a    *)
(* deferred run reports false.                                             *)
(***************************************************************************)
setBulkPriceText(text) ==
  /\ imp.pc = "idle"
  /\ showBulkPaste
  /\ bulkPriceText' = text
  /\ last' = NoUpload
  /\ UNCHANGED <<build, jobs, dataVars, calcVars, tableVars, showBulkPaste, imp>>

handleCancelBulkPricing ==
  /\ imp.pc = "idle"
  /\ showBulkPaste
  /\ bulkPriceText' = <<>>
  /\ showBulkPaste' = FALSE
  /\ last' = NoUpload
  /\ UNCHANGED <<build, jobs, dataVars, calcVars, tableVars, imp>>

StartImport(caller, text, eager) ==
  imp' = [pc |-> "run", caller |-> caller, eager |-> eager, text |-> text, done |-> 0,
          st |-> ImportStart(legacyPrices)]

\* the Apply button, enabled while the text is not blank
handleApplyBulkPricing ==
  /\ imp.pc = "idle"
  /\ showBulkPaste
  /\ ~IsBlankText(bulkPriceText)
  /\ \E eager \in (IF build = "part_000" THEN BOOLEAN ELSE {TRUE}) :
       StartImport("apply", bulkPriceText, eager)
  /\ last' = NoUpload
  /\ UNCHANGED <<build, jobs, dataVars, calcVars, tableVars, showBulkPaste, bulkPriceText>>

\* the Paste prices button.  part_000 reads the clipboard: clip.kind is
\* "unavailable", "rejected" or "text".  App.tsx toggles the panel.
handlePastePrices(clip) ==
  /\ imp.pc = "idle"
  /\ last' = NoUpload
  /\ IF build = "App"
     THEN /\ showBulkPaste' = ~showBulkPaste
          /\ UNCHANGED <<bulkPriceText, imp>>
     ELSE IF clip.kind # "text"
          THEN /\ showBulkPaste' = TRUE
               /\ UNCHANGED <<bulkPriceText, imp>>
          ELSE IF IsBlankText(clip.text)
               THEN /\ bulkPriceText' = clip.text
                    /\ showBulkPaste' = TRUE
                    /\ UNCHANGED imp
               ELSE /\ \E eager \in BOOLEAN : StartImport("paste", clip.text, eager)
                    /\ UNCHANGED <<showBulkPaste, bulkPriceText>>
  /\ UNCHANGED <<build, jobs, dataVars, calcVars, tableVars>>

\* one iteration of lines.forEach
ImportLine ==
  /\ imp.pc = "run"
  /\ imp.done < Len(imp.text)
  /\ imp' = [imp EXCEPT !.done = @ + 1,
                        !.st = ProcessLine(imp.st, imp.text[imp.done + 1])]
  /\ UNCHANGED <<build, jobs, dataVars, calcVars, tableVars, showBulkPaste, bulkPriceText, last>>

\* what applyBulkPricing returns to its caller
ReportedSuccess(i) == i.eager /\ i.st.updated

\* the updater returns next, and the caller acts on the reported success
ImportFinish ==
  /\ imp.pc = "run"
  /\ imp.done = Len(imp.text)
  /\ legacyPrices' = imp.st.next
  /\ imp' = IdleImp
  /\ IF build = "App" \/ ReportedSuccess(imp)
     THEN /\ bulkPriceText' = <<>>
          /\ showBulkPaste' = FALSE
     ELSE IF imp.caller = "paste"
          THEN /\ bulkPriceText' = imp.text
               /\ showBulkPaste' = TRUE
          ELSE UNCHANGED <<showBulkPaste, bulkPriceText>>
  /\ RecalculateEffect(stems, params, speciesDivisors, imp.st.next)
  /\ UNCHANGED <<build, jobs, dataVars, speciesDivisors, params, last>>

(***************************************************************************)
(* Specifications.                                                         *)
(*   Spec         the dataset life cycle: uploads, Upload another file,    *)
(*                Reset and Calculate, the tables as loaded at start.      *)
(*   SpecPricing  a few datasets, with edits of the divisor table, the     *)
(*                legacy prices and the settings.                          *)
(*   SpecBulk     the paste panel and the bulk import, line by line; the   *)
(*                app starts on empty storage and the user enters a text   *)
(*                into the empty panel (Cancel empties it again).          *)
(***************************************************************************)
Next ==
  \/ \E files \in Batches : handleFileUpload(files)
  \/ \E files \in Batches : handleFileDrop(files)
  \/ handleReset
  \/ handleAddMoreFiles
  \/ Calculate

Spec == Init /\ [][Next]_vars

PricingBatches ==
  {<<FileSpruce>>, <<FilePine>>, <<FilePine2>>, <<FilePine, FilePine2>>,
   <<FileZero>>, <<FileNoDbh>>}

\* texts typed into a divisor cell: empty, a word, 20, 0, -3
DivisorInputs == {Empty, Junk, Num(20, <<>>), Num(0, <<>>), Minus(Num(3, <<>>))}

NextPricing ==
  \/ \E files \in PricingBatches : handleFileUpload(files)
  \/ handleReset
  \/ \E raw \in DivisorInputs : updateDivisor("Gran", 5, raw)
  \/ resetDivisors
  \/ setLegacyPrice(1, Num(110, <<>>))
  \/ setLegacyPrice(2, Num(115, <<>>))
  \/ \E raw \in {Num(900, <<>>), Num(1800, <<>>)} : setParam("harvestingCostRate", raw)

SpecPricing == Init /\ [][NextPricing]_vars

\* pasted lines: breakpoint and price (also with a decimal comma and a word
\* in between), a lone price, a lone breakpoint value, prices that are not
\* positive, a word, a blank line
SampleLines ==
  {<<Num(0, <<2, 0>>), Num(110, <<>>)>>,
   <<Num(0, <<2, 5>>), Num(115, <<>>)>>,
   <<Comma(Num(0, <<2, 5>>)), Junk, Num(0, <<2, 0>>)>>,
   <<Num(110, <<>>)>>,
   <<Num(115, <<>>)>>,
   <<Num(0, <<2, 5>>)>>,
   <<Num(0, <<>>)>>,
   <<Num(0, <<2, 0>>), Minus(Num(5, <<>>))>>,
   <<Junk>>,
   <<>>}

SampleTexts == SeqsUpTo(SampleLines, MaxLines)

\* what the clipboard may hold when Paste prices is clicked
Clips ==
  {[kind |-> "unavailable", text |-> <<>>],
   [kind |-> "rejected", text |-> <<>>],
   [kind |-> "text", text |-> <<>>],
   [kind |-> "text", text |-> <<<<Num(110, <<>>)>>>>],
   [kind |-> "text", text |-> <<<<Junk>>>>]}

NextBulk ==
  \/ \E clip \in Clips : handlePastePrices(clip)
  \/ bulkPriceText = <<>> /\ \E text \in SampleTexts : setBulkPriceText(text)
  \/ handleApplyBulkPricing
  \/ handleCancelBulkPricing
  \/ ImportLine
  \/ ImportFinish

\* the import does not read the divisor table: the app starts on empty storage
InitBulk == Init /\ speciesDivisors = loadSpeciesDivisors(StoredAbsent, build)

SpecBulk == InitBulk /\ [][NextBulk]_vars

(***************************************************************************)
(* Claims on the aggregation (specification Spec).                         *)
(***************************************************************************)
\* the records of a dataset whose diameter resolves to a class: the diameter
\* is present and strictly positive
BinnableStems(stemList) ==
  SelectSeq(stemList, LAMBDA stem : stem.dbh.some /\ stem.dbh.v > 0)

StemVolumes(stemList) == [i \in 1..Len(stemList) |-> stemList[i].stem_volume]

RowStems == [i \in 1..Len(results) |-> results[i].stems]

RowVolumes == [i \in 1..Len(results) |-> results[i].totalVolume]

\* C1: after a calculation run, the stem counts of the result rows sum to
\* the number of dataset records whose diameter resolves to a class, and the
\* rows' volumes sum to the volume of exactly those records; a record with an
\* absent or non-positive diameter adds nothing to a row or to a total.
C1_RowsCoverBinnableStems ==
  lastRun.some =>
    LET binned == BinnableStems(lastRun.v.stems)
    IN  /\ SumSeq(RowStems) = Len(binned)
        /\ SumSeq(RowVolumes) = SumSeq(StemVolumes(binned))
        /\ newTotals.v.totalStems = Len(binned)
        /\ newTotals.v.totalVolume = SumSeq(StemVolumes(binned))
        /\ oldModelSummary.v.totalStems = Len(binned)
        /\ oldModelSummary.v.totalVolume = SumSeq(StemVolumes(binned))

\* a run over a dataset holding a binned record and a record without a
\* diameter that has a species and a positive volume
C1_Witness ==
  /\ lastRun.some
  /\ Len(results) > 0
  /\ \E i \in 1..Len(lastRun.v.stems) :
       /\ ~lastRun.v.stems[i].dbh.some
       /\ lastRun.v.stems[i].stem_volume > 0
  /\ SumSeq(RowStems) < Len(lastRun.v.stems)
  /\ SumSeq(RowVolumes) < SumSeq(StemVolumes(lastRun.v.stems))

\* C2: an upload made while a dataset is loaded yields the previously loaded
\* records followed by the newly parsed records, for every sequence of
\* upload actions (dialog or drop, empty selections in between).
C2_UploadsConcatenate ==
  (last.op = "upload" /\ Len(last.prev) > 0) => stems = last.prev \o last.parsed

(***************************************************************************)
(* Claims on the pricing engine (specification SpecPricing).               *)
(***************************************************************************)
\* the position of a row's class in the threshold table
PositionOfClass(dbhClass) == CHOOSE k \in 1..Len(DBH_CLASSES) : DBH_CLASSES[k] = dbhClass

\* the divisor cell a run read for a row
CellOfRow(row) == lastRun.v.speciesDivisors[row.species][PositionOfClass(row.dbhClass)]

\* the fraction q equals a / b (b > 0)
IsQuotient(q, a, b) == q.d > 0 /\ q.n * b = a * q.d

\* C3: for every result row whose (species, class index) cell of the divisor
\* table holds a positive divisor d, pricePerCubicMeter is harvestingCostRate
\* / d and totalPrice is pricePerCubicMeter times the volume of the bin.
C3_PriceIsRateOverDivisor ==
  lastRun.some =>
    \A i \in 1..Len(results) :
      LET row == results[i]
          cell == CellOfRow(row)
      IN  (cell.some /\ cell.v > 0) =>
            /\ IsQuotient(row.pricePerCubicMeter, lastRun.v.params.harvestingCostRate, cell.v)
            /\ IsQuotient(row.totalPrice,
                          row.pricePerCubicMeter.n * row.totalVolume,
                          row.pricePerCubicMeter.d * 100)

\* one spruce record of diameter 150 and volume 0.8, divisor 20 for the 160
\* class, rate 1800: price 90, totalPrice 72
C3_Witness ==
  /\ lastRun.some
  /\ lastRun.v.params.harvestingCostRate = 180000
  /\ Len(results) = 1
  /\ results[1].species = "Gran"
  /\ results[1].dbhClass = 160
  /\ results[1].stems = 1
  /\ results[1].totalVolume = 80
  /\ CellOfRow(results[1]) = Some(2000)
  /\ results[1].pricePerCubicMeter = [n |-> 90, d |-> 1]
  /\ results[1].totalPrice = [n |-> 72, d |-> 1]

\* C4: a row whose divisor cell is unset has pricePerCubicMeter and
\* totalPrice exactly zero whatever its volume, while the row exists and its
\* stems and volume are counted in the totals of both models.
C4_UnsetDivisorPricesZero ==
  lastRun.some =>
    /\ \A i \in 1..Len(results) :
         ~(CellOfRow(results[i]).some /\ CellOfRow(results[i]).v > 0) =>
           /\ results[i].pricePerCubicMeter.n = 0
           /\ results[i].totalPrice.n = 0
    /\ LET binned == BinnableStems(lastRun.v.stems)
       IN  \A j \in 1..Len(binned) :
             \E i \in 1..Len(results) :
               /\ results[i].species = binned[j].speciesCategory
               /\ binned[j].dbh.v <= results[i].dbhClass * 100
               /\ results[i].stems >= 1
    /\ newTotals.v.totalStems = SumSeq(RowStems)
    /\ newTotals.v.totalVolume = SumSeq(RowVolumes)
    /\ oldModelSummary.v.totalStems = SumSeq(RowStems)
    /\ oldModelSummary.v.totalVolume = SumSeq(RowVolumes)

\* a run with a row of positive volume whose divisor cell is unset
C4_Witness ==
  /\ lastRun.some
  /\ \E i \in 1..Len(results) :
       /\ ~CellOfRow(results[i]).some
       /\ results[i].stems >= 1
       /\ results[i].totalVolume > 0
       /\ results[i].pricePerCubicMeter = RZero
       /\ results[i].totalPrice = RZero
       /\ newTotals.v.totalVolume >= results[i].totalVolume
       /\ newTotals.v.totalPrice = RZero

\* the average volume per stem of a run as the fraction n / d: total volume
\* over total stems, zero when there are no stems
AverageOfRun ==
  IF oldModelSummary.v.totalStems > 0
  THEN [n |-> oldModelSummary.v.totalVolume, d |-> oldModelSummary.v.totalStems]
  ELSE [n |-> 0, d |-> 1]

\* |breakpoint i - average|, scaled by the denominator of the average
DistanceTo(i, avg) == Abs(lastRun.v.legacyPrices[i].averageVolume * avg.d - avg.n)

\* entry i is nearest to the average and the lowest-indexed such entry
IsNearestEntry(i, avg) ==
  /\ \A j \in 1..Len(lastRun.v.legacyPrices) : DistanceTo(i, avg) <= DistanceTo(j, avg)
  /\ \A j \in 1..(i - 1) : DistanceTo(i, avg) < DistanceTo(j, avg)

\* the legacy price of the run is the price of the entry nearest to avg
LegacyPriceIsNearest(avg) ==
  \E i \in 1..Len(lastRun.v.legacyPrices) :
    /\ IsNearestEntry(i, avg)
    /\ oldModelSummary.v.averagePrice = lastRun.v.legacyPrices[i].price

LegacyTotalIsPriceTimesVolume ==
  oldModelSummary.v.totalPrice
    = oldModelSummary.v.averagePrice * oldModelSummary.v.totalVolume

\* C5 as stated: for every run, the legacy price is the price of the entry
\* whose breakpoint is nearest to the average volume per stem (zero when
\* there are no stems), and the legacy total is that price times the total
\* volume, also for a dataset whose binnable stems all have zero volume.
C5_LegacyPriceOfNearestEntry ==
  lastRun.some =>
    /\ LegacyPriceIsNearest(AverageOfRun)
    /\ LegacyTotalIsPriceTimesVolume

\* C5 as amended: the legacy price is the price of the nearest entry when
\* the average volume per stem is strictly positive, and zero when the
\* average is zero; the legacy total is that price times the total volume.
C5_LegacyPriceOfNearestEntryWhenPositive ==
  lastRun.some =>
    /\ AverageOfRun.n > 0 => LegacyPriceIsNearest(AverageOfRun)
    /\ AverageOfRun.n <= 0 => oldModelSummary.v.averagePrice = 0
    /\ LegacyTotalIsPriceTimesVolume

\* a run over binnable stems of zero volume while the first entry of the
\* table carries a price
C5_Witness ==
  /\ lastRun.some
  /\ oldModelSummary.v.totalStems > 0
  /\ oldModelSummary.v.totalVolume = 0
  /\ lastRun.v.legacyPrices[1].price > 0
  /\ oldModelSummary.v.averagePrice = 0
  /\ oldModelSummary.v.totalPrice = 0

\* C6: an average volume equal to a breakpoint selects that breakpoint's
\* entry; a positive average volume equidistant between two breakpoints
\* selects the lower-indexed of the two.
C6_ExactAndTieSelectLower ==
  (lastRun.some /\ AverageOfRun.n > 0) =>
    \A i \in 1..Len(lastRun.v.legacyPrices) :
      /\ DistanceTo(i, AverageOfRun) = 0
           => oldModelSummary.v.averagePrice = lastRun.v.legacyPrices[i].price
      /\ (/\ i < Len(lastRun.v.legacyPrices)
          /\ lastRun.v.legacyPrices[i].averageVolume * AverageOfRun.d < AverageOfRun.n
          /\ AverageOfRun.n < lastRun.v.legacyPrices[i + 1].averageVolume * AverageOfRun.d
          /\ DistanceTo(i, AverageOfRun) = DistanceTo(i + 1, AverageOfRun))
           => oldModelSummary.v.averagePrice = lastRun.v.legacyPrices[i].price

\* average 0.225 from stems of 0.20 and 0.25, halfway between the first two
\* breakpoints, which carry different prices: the first entry's price
C6_Witness ==
  /\ lastRun.some
  /\ AverageOfRun = [n |-> 45, d |-> 2]
  /\ lastRun.v.legacyPrices[1].price = 11000
  /\ lastRun.v.legacyPrices[2].price = 11500
  /\ oldModelSummary.v.averagePrice = 11000

(***************************************************************************)
(* Claims on the bulk import (specification SpecBulk).  While an import    *)
(* runs, legacyPrices still holds the table as it was before the import    *)
(* and imp.st.next the table under construction.                           *)
(***************************************************************************)
\* every line of the text has been processed
ImportDone == imp.pc = "run" /\ imp.done = Len(imp.text)

IsBreakpoint(value) == \E i \in 1..Len(LEGACY_AVERAGE_VOLUMES) : LEGACY_AVERAGE_VOLUMES[i] = value

IndexOfBreakpoint(value) ==
  CHOOSE i \in 1..Len(LEGACY_AVERAGE_VOLUMES) : LEGACY_AVERAGE_VOLUMES[i] = value

\* the numbers written on a line, in order
NumbersOf(line) ==
  LET nums == SelectSeq(line, LAMBDA chunk : chunk.k = "num")
  IN  [i \in 1..Len(nums) |-> parseNumber(nums[i])]

\* a breakpoint value followed by a strictly positive price different from it
IsVolumePriceLine(line) ==
  /\ Len(NumbersOf(line)) = 2
  /\ IsBreakpoint(NumbersOf(line)[1])
  /\ NumbersOf(line)[2] > 0
  /\ NumbersOf(line)[2] # NumbersOf(line)[1]

IsVolumePriceText(text) ==
  /\ Len(text) > 0
  /\ \A k \in 1..Len(text) : IsVolumePriceLine(text[k])
  /\ \A k, l \in 1..Len(text) : k # l => NumbersOf(text[k])[1] # NumbersOf(text[l])[1]

\* C7: an import of lines "breakpoint price" with distinct breakpoints sets
\* the price of each named breakpoint to the price of its line and leaves
\* the price of every breakpoint that no line names unchanged.
C7_VolumePriceLinesSetNamedEntries ==
  (ImportDone /\ IsVolumePriceText(imp.text)) =>
    /\ \A k \in 1..Len(imp.text) :
         imp.st.next[IndexOfBreakpoint(NumbersOf(imp.text[k])[1])].price
           = NumbersOf(imp.text[k])[2]
    /\ \A i \in 1..Len(imp.st.next) :
         (\A k \in 1..Len(imp.text) : NumbersOf(imp.text[k])[1] # LEGACY_AVERAGE_VOLUMES[i])
           => imp.st.next[i].price = legacyPrices[i].price
    /\ \A i \in 1..Len(imp.st.next) :
         imp.st.next[i].averageVolume = LEGACY_AVERAGE_VOLUMES[i]

\* "0.20 110 / 0.25 115" imported into a table that already held a price
\* for 0.20: 0.20 is 110, 0.25 is 115, every other entry as before
C7_Witness ==
  /\ ImportDone
  /\ imp.text = <<<<Num(0, <<2, 0>>), Num(110, <<>>)>>, <<Num(0, <<2, 5>>), Num(115, <<>>)>>>>
  /\ legacyPrices[1].price = 11500
  /\ imp.st.next[1].price = 11000
  /\ imp.st.next[2].price = 11500
  /\ \A i \in 3..Len(imp.st.next) : imp.st.next[i].price = 0

\* one strictly positive number per line, at most 15 lines
IsPriceColumn(text) ==
  /\ Len(text) > 0
  /\ Len(text) <= Len(LEGACY_AVERAGE_VOLUMES)
  /\ \A k \in 1..Len(text) :
       /\ Len(text[k]) = 1
       /\ Len(NumbersOf(text[k])) = 1
       /\ NumbersOf(text[k])[1] > 0

\* C8: an import of a single column of strictly positive prices assigns the
\* value of the k-th line to the k-th breakpoint in ascending order.
C8_PriceColumnIsPositional ==
  (ImportDone /\ IsPriceColumn(imp.text)) =>
    \A k \in 1..Len(imp.text) : imp.st.next[k].price = NumbersOf(imp.text[k])[1]

\* C9: while a line is processed, a price is written to an entry only when
\* the chosen price token parses to a strictly positive number; when the
\* chosen token is zero or negative the targeted entry keeps the price it had
\* before the line and is not marked as assigned.
C9_OnlyPositivePricesWritten ==
  [][ImportLine =>
       LET before == imp.st
           after == imp'.st
       IN  /\ \A i \in 1..Len(before.next) :
                after.next[i] # before.next[i] =>
                  /\ i = after.target
                  /\ parseNumber(after.token) > 0
                  /\ after.next[i].price = parseNumber(after.token)
                  /\ after.next[i].averageVolume = before.next[i].averageVolume
           /\ \A i \in after.assigned \ before.assigned :
                i = after.target /\ parseNumber(after.token) > 0
           /\ (after.target \in 1..Len(before.next) /\ parseNumber(after.token) <= 0) =>
                /\ after.next[after.target].price = before.next[after.target].price
                /\ (after.target \in after.assigned) = (after.target \in before.assigned)
                /\ after.updated = before.updated]_vars

\* a line whose chosen price token is not positive was processed, and the
\* entry it targets still carries the positive price it had before
C9_Witness ==
  /\ imp.pc = "run"
  /\ imp.done > 0
  /\ imp.st.target \in 1..Len(imp.st.next)
  /\ imp.st.token.k = "num"
  /\ parseNumber(imp.st.token) <= 0
  /\ imp.st.target \notin imp.st.assigned
  /\ imp.st.next[imp.st.target].price > 0
  /\ imp.st.next[imp.st.target].price = legacyPrices[imp.st.target].price

\* C10, for an import started with the Apply button of the paste panel: the
\* importer reports success exactly when the import set the price of at
\* least one entry, and the caller clears the paste text and closes the
\* panel exactly when success is reported: after an import that updated an
\* entry the text is empty and the panel closed, after an import that
\* updated nothing the text and the panel are as they were.
C10_PanelClearedIffUpdated ==
  [][(ImportFinish /\ imp.caller = "apply") =>
       IF \E i \in 1..Len(legacyPrices) : i \in imp.st.assigned
       THEN ReportedSuccess(imp) /\ bulkPriceText' = <<>> /\ showBulkPaste' = FALSE
       ELSE /\ ~ReportedSuccess(imp)
            /\ bulkPriceText' = bulkPriceText
            /\ showBulkPaste' = showBulkPaste]_vars

\* the matched volume of a line: the first strictly positive number on it
\* that is a breakpoint (0: the line names no breakpoint)
MatchedVolumeOf(line) ==
  LET nums == NumbersOf(line)
      hits == {k \in 1..Len(nums) : nums[k] > 0 /\ IsBreakpoint(nums[k])}
  IN  IF hits = {} THEN 0
      ELSE nums[CHOOSE k \in hits : \A l \in hits : k <= l]

\* C11: when the breakpoint named by a line was already assigned by an
\* earlier line of the same import, the line does not overwrite the price
\* with the matched volume itself: after the line the entry carries the
\* price it had, or a number of the line that differs from the matched volume.
C11_NoOverwriteWithMatchedVolume ==
  [][ImportLine =>
       LET line == imp.text[imp.done + 1]
           mv == MatchedVolumeOf(line)
       IN  (mv # 0 /\ IndexOfBreakpoint(mv) \in imp.st.assigned) =>
             \/ imp'.st.next[IndexOfBreakpoint(mv)].price
                  = imp.st.next[IndexOfBreakpoint(mv)].price
             \/ \E k \in 1..Len(NumbersOf(line)) :
                  /\ NumbersOf(line)[k] # mv
                  /\ NumbersOf(line)[k] = imp'.st.next[IndexOfBreakpoint(mv)].price]_vars

(***************************************************************************)
(* Classification of single records.  SpecClassify uploads documents of    *)
(* one stem, with the diameter text and the species name ranging over      *)
(* probe values.                                                           *)
(***************************************************************************)
\* diameter texts: none, a word, 0, -5, 0.01, 80, 80.01, 100, 579.99, 580,
\* 580.01, 1000
ProbeDiameters ==
  {Absent, Junk, Num(0, <<>>), Minus(Num(5, <<>>)), Num(0, <<0, 1>>),
   Num(80, <<>>), Num(80, <<0, 1>>), Num(100, <<>>), Num(579, <<9, 9>>),
   Num(580, <<>>), Num(580, <<0, 1>>), Num(1000, <<>>)}

\* species names: no name, the empty name, and names holding any of a pine,
\* a spruce and a broadleaf keyword (none of them: some other name)
ProbeNames ==
  {None, EmptyName} \cup {Name(kw) : kw \in SUBSET {"TALL", "SPRUCE", "BJORK"}}

\* a document of one stem of volume 0.20 with the given name and diameter
ProbeFile(name, dbhText) ==
  [readable |-> TRUE, ext |-> "hpr",
   defs |-> IF name.some THEN ("p" :> name) ELSE <<>>,
   stemEls |-> <<[BareStem EXCEPT !.speciesGroupKey = "p", !.DBH = dbhText,
                                  !.StemVolume = Num(0, <<2, 0>>)]>>]

ProbeFiles == {ProbeFile(name, dbhText) : name \in ProbeNames, dbhText \in ProbeDiameters}

NextClassify ==
  \/ \E file \in ProbeFiles : handleFileUpload(<<file>>)
  \/ handleReset

SpecClassify == Init /\ [][NextClassify]_vars

(***************************************************************************)
(* Claims on the classification of records (specification SpecClassify).   *)
(***************************************************************************)
\* the threshold the ascending table assigns to a strictly positive diameter
\* d (in hundredths of a millimetre): the least threshold not below d, the
\* largest threshold when d exceeds them all
ClassOfDiameter(d) ==
  LET notBelow == {k \in 1..Len(DBH_CLASSES) : d <= DBH_CLASSES[k] * 100}
  IN  IF notBelow = {} THEN 580
      ELSE DBH_CLASSES[CHOOSE k \in notBelow : \A l \in notBelow : k <= l]

\* what the claim asks of resolveDbhClass on one optional diameter
ClassifiesAsSpecified(dbh) ==
  IF ~dbh.some \/ dbh.v <= 0 THEN resolveDbhClass(dbh) = None
  ELSE resolveDbhClass(dbh) = Some(ClassOfDiameter(dbh.v))

\* the diameter attribute of the uploaded stem, as a number
UploadedDiameter == Some(parseNumber(last.files[1].stemEls[1].DBH))

\* C12: resolveDbhClass maps a strictly positive diameter to the first
\* threshold of the ascending table that is greater than or equal to it, a
\* diameter above every threshold to 580, and returns no class exactly for an
\* absent or non-positive diameter; the record of the dataset lies in the row
\* of that class.
C12_FirstThresholdNotBelow ==
  /\ \A i \in 1..Len(stems) :
       /\ ClassifiesAsSpecified(stems[i].dbh)
       /\ resolveDbhClass(stems[i].dbh).some =>
            \E r \in 1..Len(results) :
              /\ results[r].dbhClass = ClassOfDiameter(stems[i].dbh.v)
              /\ results[r].species = stems[i].speciesCategory
  /\ last.op = "upload" =>
       /\ ClassifiesAsSpecified(UploadedDiameter)
       /\ ClassifiesAsSpecified(None)
       /\ \A r \in 1..Len(results) :
            UploadedDiameter.v > 0 /\ results[r].dbhClass = ClassOfDiameter(UploadedDiameter.v)

\* a stem of diameter 580.01 lies in the row of class 580
C12_Witness ==
  /\ Len(stems) = 1
  /\ stems[1].dbh = Some(58001)
  /\ Len(results) = 1
  /\ results[1].dbhClass = 580
  /\ results[1].stems = 1

\* the species name the document gives for its stem: undefined when the
\* dictionary has no entry for the key of the stem
UploadedName ==
  IF last.files[1].stemEls[1].speciesGroupKey \in DOMAIN last.files[1].defs
  THEN last.files[1].defs[last.files[1].stemEls[1].speciesGroupKey]
  ELSE None

HasKeyword(name, keywords) == name.some /\ ~name.v.empty /\ name.v.kw \cap keywords # {}

\* C13: classification is total with a fixed priority: every name, absent
\* and empty included, yields exactly one of Tall, Gran, Lov; a name with a
\* pine-family keyword is Tall even when it also holds spruce or broadleaf
\* keywords, otherwise a name with a spruce-family keyword is Gran, and every
\* other name or no name is Lov.
C13_ClassificationTotalWithPriority ==
  /\ \A i \in 1..Len(stems) : stems[i].speciesCategory \in {"Tall", "Gran", "Lov"}
  /\ last.op = "upload" =>
       /\ Len(stems) = 1
       /\ stems[1].speciesCategory = mapSpeciesNameToCategory(UploadedName)
       /\ HasKeyword(UploadedName, {"TALL", "PINE", "LARK"})
            => stems[1].speciesCategory = "Tall"
       /\ (~HasKeyword(UploadedName, {"TALL", "PINE", "LARK"})
           /\ HasKeyword(UploadedName, {"GRAN", "SPRUCE", "BARKBORRE"}))
            => stems[1].speciesCategory = "Gran"
       /\ (~HasKeyword(UploadedName, {"TALL", "PINE", "LARK"})
           /\ ~HasKeyword(UploadedName, {"GRAN", "SPRUCE", "BARKBORRE"}))
            => stems[1].speciesCategory = "Lov"

\* a name holding a pine, a spruce and a broadleaf keyword was uploaded and
\* its stem is Tall
C13_Witness ==
  /\ last.op = "upload"
  /\ UploadedName = Name({"TALL", "SPRUCE", "BJORK"})
  /\ Len(stems) = 1
  /\ stems[1].speciesCategory = "Tall"

(***************************************************************************)
(* Claims on uploads (specification Spec).                                 *)
(***************************************************************************)
\* C14: whenever an upload leaves a dataset without any record whose
\* diameter resolves to a class, the status "no stems detected" is shown,
\* also when the dataset holds records that merely lack a valid diameter.
C14_NoBinnableRecordsShowsNoStems ==
  (last.op = "upload" /\ BinnableStems(stems) = <<>>) => statusInfo.kind = "noStems"

\* selections of several files, with a file whose parse fails first, last,
\* in between, twice and alone
BatchSamples ==
  {<<FileSpruce, FileBad, FilePine2>>, <<FileBad, FileSpruce>>, <<FilePine2, FileBad>>,
   <<FilePine2, FileSpruce>>, <<FileBad, FileNoDbh, FileBad>>, <<FileBad>>,
   <<FileEmpty, FileSpruce>>}

NextBatch ==
  \/ \E files \in BatchSamples : handleFileUpload(files)
  \/ \E files \in BatchSamples : handleFileDrop(files)
  \/ handleReset
  \/ handleAddMoreFiles

SpecBatch == Init /\ [][NextBatch]_vars

RECURSIVE RecordsInOrder(_)
\* the records of the files of a selection in selection order, a file whose
\* parse fails giving none
RecordsInOrder(files) ==
  IF files = <<>> THEN <<>>
  ELSE (IF Head(files).readable THEN parseHPRFile(Head(files)).stems ELSE <<>>)
       \o RecordsInOrder(Tail(files))

\* C15: the files of a batch are parsed in selection order; a file whose
\* parse fails contributes no record, the upload still completes with its
\* status, and the records of every other file of the batch, before and
\* after the failing one, are in the resulting dataset in selection order.
C15_FailingFileSkipped ==
  last.op = "upload" =>
    /\ \/ stems = RecordsInOrder(last.files)
       \/ stems = last.prev \o RecordsInOrder(last.files)
    /\ statusInfo.kind = (IF Len(stems) > 0 THEN "parsed" ELSE "noStems")
    /\ statusInfo.kind = "parsed" => statusInfo.a = Len(stems)

\* spruce, a failing file, pine: the dataset is the spruce then the pine
C15_Witness ==
  /\ last.op = "upload"
  /\ last.files = <<FileSpruce, FileBad, FilePine2>>
  /\ Len(stems) = 2
  /\ stems[1].speciesCategory = "Gran"
  /\ stems[2].speciesCategory = "Tall"
  /\ statusInfo = Status("parsed", 2, 2)

(***************************************************************************)
(* Claims on the recalculation (specification Spec).                       *)
(***************************************************************************)
\* the stored results were computed from the dataset, settings and tables
\* as they are now
InputsAsAtLastRun ==
  lastRun = Some([stems |-> stems, params |-> params,
                  speciesDivisors |-> speciesDivisors, legacyPrices |-> legacyPrices])

C17_DivisorsUnsetOrPositive ==
  /\ DOMAIN speciesDivisors = {"Tall", "Gran", "Lov"}
  /\ \A species \in {"Tall", "Gran", "Lov"} :
       /\ DOMAIN speciesDivisors[species] = 1..Len(DBH_CLASSES)
       /\ \A index \in 1..Len(DBH_CLASSES) :
            \/ speciesDivisors[species][index] = None
            \/ /\ speciesDivisors[species][index].some
               /\ speciesDivisors[species][index].v > 0

\* the table was loaded from a partial stored value (a string, a negative
\* number and null among the Gran cells, no Lov cells), and an edit of a
\* Gran cell that held 20 left it unset
C17_Witness ==
  /\ speciesDivisors.Gran[1] = Some(340)
  /\ speciesDivisors.Gran[2] = None
  /\ speciesDivisors.Gran[3] = None
  /\ speciesDivisors.Gran[4] = None
  /\ speciesDivisors.Gran[5] = None
  /\ speciesDivisors.Lov[1] = None
  /\ speciesDivisors.Tall[2] = Some(380)

(***************************************************************************)
(* Imports of texts longer than the table.  SpecLong pastes texts of 16    *)
(* lines and edits prices by hand in between.                              *)
(***************************************************************************)
LongLines == Len(LEGACY_AVERAGE_VOLUMES) + 1

\* 16 lines "110", and "0.20 115" followed by 15 lines "110"
LongColumn == [k \in 1..LongLines |-> <<Num(110, <<>>)>>]
LongMixed ==
  [k \in 1..LongLines |->
     IF k = 1 THEN <<Num(0, <<2, 0>>), Num(115, <<>>)>> ELSE <<Num(110, <<>>)>>]

LongTexts == {LongColumn, LongMixed}

\* texts typed into the price input of a table row: 120, a word, -5
PriceInputs == {Num(120, <<>>), Junk, Minus(Num(5, <<>>))}

NextLong ==
  \/ handlePastePrices([kind |-> "unavailable", text |-> <<>>])
  \/ bulkPriceText = <<>> /\ \E text \in LongTexts : setBulkPriceText(text)
  \/ handleApplyBulkPricing
  \/ handleCancelBulkPricing
  \/ ImportLine
  \/ ImportFinish
  \/ \E raw \in PriceInputs : setLegacyPrice(Len(LEGACY_AVERAGE_VOLUMES), raw)

SpecLong == InitBulk /\ [][NextLong]_vars

(***************************************************************************)
(* Claims on the legacy price table (specification SpecLong).              *)
(***************************************************************************)
\* a table of the 15 fixed breakpoints in ascending order, one price each
HasFixedBreakpoints(table) ==
  /\ DOMAIN table = 1..Len(LEGACY_AVERAGE_VOLUMES)
  /\ \A i \in DOMAIN table :
       /\ DOMAIN table[i] = {"averageVolume", "price"}
       /\ table[i].averageVolume = LEGACY_AVERAGE_VOLUMES[i]
  /\ \A i, j \in DOMAIN table : i < j => table[i].averageVolume < table[j].averageVolume

\* C18: after any sequence of manual price edits and bulk imports, texts of
\* more than 15 lines included, the legacy price table has exactly the 15
\* fixed breakpoints in ascending order; only prices change.
C18_BreakpointsFixed ==
  /\ Len(LEGACY_AVERAGE_VOLUMES) = 15
  /\ HasFixedBreakpoints(legacyPrices)
  /\ imp.pc = "run" => HasFixedBreakpoints(imp.st.next)

\* the 16th line of a column of 16 prices has been processed: the cursor is
\* past the table, the line wrote nothing, the 15 entries carry the prices
\* of the first 15 lines
C18_Witness ==
  /\ imp.pc = "run"
  /\ imp.text = LongColumn
  /\ imp.done = LongLines
  /\ imp.st.fallbackIndex > Len(LEGACY_AVERAGE_VOLUMES)
  /\ ~imp.st.wrote
  /\ \A i \in 1..Len(imp.st.next) : imp.st.next[i].price = 11000
  /\ legacyPrices[Len(LEGACY_AVERAGE_VOLUMES)].price = 12000

(***************************************************************************)
(* Settings.  SpecSettings edits the max per-tree time and the stand       *)
(* removal on a few datasets.                                              *)
(***************************************************************************)
\* texts typed into the max per-tree time input: 20, 30, 45, 12.5, a word, -5
TimeInputs ==
  {Num(20, <<>>), Num(30, <<>>), Num(45, <<>>), Num(12, <<5>>), Junk, Minus(Num(5, <<>>))}

\* texts typed into the stand removal input: 0 and 400
RemovalInputs == {Num(0, <<>>), Num(400, <<>>)}

\* the datasets of the pricing, and a spruce with a pine: two rows
SettingsBatches == PricingBatches \cup {<<FileSpruce, FilePine2>>}

NextSettings ==
  \/ \E files \in SettingsBatches : handleFileUpload(files)
  \/ handleReset
  \/ \E raw \in TimeInputs : setParam("maxPerTreeTime", raw)
  \/ \E raw \in RemovalInputs : setParam("standRemovalUT", raw)

SpecSettings == Init /\ [][NextSettings]_vars

(***************************************************************************)
(* Claims on the settings (specification SpecSettings).                    *)
(***************************************************************************)
\* C19: the accumulated processing time of every bin is its stem count times
\* min(configured max per-tree time, 30): the setting can lower the time per
\* stem below 30 seconds, and no setting raises it above 30.
C19_TimeIsStemsTimesCappedSetting ==
  lastRun.some =>
    \A r \in 1..Len(results) :
      /\ results[r].totalTime
           = results[r].stems * (IF lastRun.v.params.maxPerTreeTime < 3000
                                 THEN lastRun.v.params.maxPerTreeTime ELSE 3000)
      /\ results[r].totalTime <= results[r].stems * 3000

\* a bin of two stems under a setting of 45 seconds carries 60 seconds, and
\* one under a setting of 20 seconds carries 40
C19_Witness ==
  /\ lastRun.some
  /\ Len(results) = 1
  /\ results[1].stems = 2
  /\ \/ lastRun.v.params.maxPerTreeTime = 4500 /\ results[1].totalTime = 6000
     \/ lastRun.v.params.maxPerTreeTime = 2000 /\ results[1].totalTime = 4000

\* a = b for fractions, compared in lowest terms, and c = a * (v / 100) for
\* a volume v in hundredths
SameFraction(a, b) == a.d > 0 /\ b.d > 0 /\ Rat(a.n, a.d) = Rat(b.n, b.d)
IsTimesVolume(c, a, v) == SameFraction(c, RMul(a, Rat(v, 100)))

RowPrices == [i \in 1..Len(results) |-> results[i].totalPrice]

\* C20: in the new-model totals of a run, total stems, total volume and
\* totalPrice are the sums over the result rows; the weighted average price
\* is totalPrice / total volume, and zero when the total volume is zero; the
\* total forwarding cost is forwardingCostPerCubicMeter times the total
\* volume; the combined total is totalPrice plus the total forwarding cost;
\* the legacy totals carry the same total stems and total volume.
C20_TotalsOfRun ==
  newTotals.some =>
    /\ newTotals.v.totalStems = SumSeq(RowStems)
    /\ newTotals.v.totalVolume = SumSeq(RowVolumes)
    /\ SameFraction(newTotals.v.totalPrice, RSumSeq(RowPrices))
    /\ IF newTotals.v.totalVolume = 0
       THEN newTotals.v.averagePrice = RZero
       ELSE IsTimesVolume(newTotals.v.totalPrice, newTotals.v.averagePrice,
                          newTotals.v.totalVolume)
    /\ IsTimesVolume(newTotals.v.totalForwardingCost.rat,
                     newTotals.v.forwardingCostPerCubicMeter.rat, newTotals.v.totalVolume)
    /\ IsTimesVolume(newTotals.v.totalForwardingCost.surd,
                     newTotals.v.forwardingCostPerCubicMeter.surd, newTotals.v.totalVolume)
    /\ SameFraction(newTotals.v.combinedTotal.rat,
                    RAdd(newTotals.v.totalPrice, newTotals.v.totalForwardingCost.rat))
    /\ SameFraction(newTotals.v.combinedTotal.surd, newTotals.v.totalForwardingCost.surd)
    /\ oldModelSummary.some
    /\ oldModelSummary.v.totalStems = newTotals.v.totalStems
    /\ oldModelSummary.v.totalVolume = newTotals.v.totalVolume

\* a run on a spruce of 0.8 and a pine of 0.25 with the stand removal edited
\* to 400: two rows, totals of 2 stems and 1.05, a price and a forwarding
\* cost that are not zero
C20_Witness ==
  /\ newTotals.some
  /\ lastRun.some
  /\ lastRun.v.params.standRemovalUT = 40000
  /\ Len(results) = 2
  /\ newTotals.v.totalStems = 2
  /\ newTotals.v.totalVolume = 105
  /\ newTotals.v.totalPrice.n > 0
  /\ results[1].totalPrice.n > 0
  /\ results[2].totalPrice.n > 0
  /\ newTotals.v.totalForwardingCost.surd.n > 0
  /\ newTotals.v.combinedTotal.rat.n > newTotals.v.totalPrice.n

(***************************************************************************)
(* Datasets of several bins.  SpecRows uploads selections of one-stem      *)
(* documents of the three species in several diameter classes, in any      *)
(* order.                                                                  *)
(***************************************************************************)
\* pines of 80, 80.01 and 100, spruces of 80 and 1000, a birch of 580.01
RowFiles ==
  {ProbeFile(Name({"TALL"}), Num(80, <<>>)),
   ProbeFile(Name({"TALL"}), Num(80, <<0, 1>>)),
   ProbeFile(Name({"TALL"}), Num(100, <<>>)),
   ProbeFile(Name({"SPRUCE"}), Num(80, <<>>)),
   ProbeFile(Name({"SPRUCE"}), Num(1000, <<>>)),
   ProbeFile(Name({"BJORK"}), Num(580, <<0, 1>>))}

RowBatches == SeqsUpTo(RowFiles, MaxStems) \ {<<>>}

NextRows ==
  \/ \E files \in RowBatches : handleFileUpload(files)
  \/ handleReset

SpecRows == Init /\ [][NextRows]_vars

(***************************************************************************)
(* Claims on the result rows (specification SpecRows).                     *)
(***************************************************************************)
\* the place of a species in the priority order Tall, Gran, Lov
PriorityOf(species) ==
  IF species = "Tall" THEN 1 ELSE IF species = "Gran" THEN 2 ELSE 3

\* row a comes strictly before row b
StrictlyBefore(a, b) ==
  \/ PriorityOf(a.species) < PriorityOf(b.species)
  \/ a.species = b.species /\ a.dbhClass < b.dbhClass

\* C21: the result rows of a run are strictly ordered by species priority
\* (Tall, Gran, Lov) and, within a species, by strictly ascending diameter
\* class: at most one row per (species, class), and one row for each
\* populated bin.
C21_RowsStrictlyOrdered ==
  lastRun.some =>
    /\ \A i, j \in 1..Len(results) : i < j => StrictlyBefore(results[i], results[j])
    /\ \A i \in 1..Len(results) :
         \E k \in 1..Len(lastRun.v.stems) :
           /\ lastRun.v.stems[k].speciesCategory = results[i].species
           /\ resolveDbhClass(lastRun.v.stems[k].dbh) = Some(results[i].dbhClass)
    /\ \A k \in 1..Len(lastRun.v.stems) :
         resolveDbhClass(lastRun.v.stems[k].dbh).some =>
           \E i \in 1..Len(results) :
             /\ results[i].species = lastRun.v.stems[k].speciesCategory
             /\ results[i].dbhClass = resolveDbhClass(lastRun.v.stems[k].dbh).v

\* a birch of class 580, a spruce of class 80 and a pine of class 100 were
\* uploaded in this order: the rows are the pine, the spruce, the birch
C21_Witness ==
  /\ lastRun.some
  /\ Len(stems) = 3
  /\ stems[1].speciesCategory = "Lov"
  /\ stems[2].speciesCategory = "Gran"
  /\ stems[3].speciesCategory = "Tall"
  /\ Len(results) = 3
  /\ results[1].species = "Tall" /\ results[1].dbhClass = 100
  /\ results[2].species = "Gran" /\ results[2].dbhClass = 80
  /\ results[3].species = "Lov" /\ results[3].dbhClass = 580

\* selections of two pines whose diameter texts range over the probe values
PairBatches ==
  {<<ProbeFile(Name({"TALL"}), d1), ProbeFile(Name({"TALL"}), d2)>> :
     d1 \in ProbeDiameters, d2 \in ProbeDiameters}

NextPairs ==
  \/ \E files \in PairBatches : handleFileUpload(files)
  \/ handleReset

SpecPairs == Init /\ [][NextPairs]_vars

\* the record has a strictly positive diameter
HasDiameter(stem) == stem.dbh.some /\ stem.dbh.v > 0

\* C22: classification is monotonic: of two positive diameters d1 <= d2 the
\* class of d1 is at most the class of d2; for thresholds T1 < T2, a
\* diameter up to T1 classifies at or before a diameter in (T1, T2].
C22_ClassificationMonotonic ==
  \A i, j \in 1..Len(stems) :
    (HasDiameter(stems[i]) /\ HasDiameter(stems[j])) =>
      /\ resolveDbhClass(stems[i].dbh).some
      /\ resolveDbhClass(stems[j].dbh).some
      /\ stems[i].dbh.v <= stems[j].dbh.v =>
           resolveDbhClass(stems[i].dbh).v <= resolveDbhClass(stems[j].dbh).v
      /\ \A a, b \in 1..Len(DBH_CLASSES) :
           (/\ DBH_CLASSES[a] < DBH_CLASSES[b]
            /\ stems[i].dbh.v <= DBH_CLASSES[a] * 100
            /\ stems[j].dbh.v > DBH_CLASSES[a] * 100
            /\ stems[j].dbh.v <= DBH_CLASSES[b] * 100) =>
             resolveDbhClass(stems[i].dbh).v <= resolveDbhClass(stems[j].dbh).v

\* diameters of 100 and 1000 were uploaded together: classes 100 and 580
C22_Witness ==
  /\ Len(stems) = 2
  /\ stems[1].dbh = Some(10000)
  /\ stems[2].dbh = Some(100000)
  /\ Len(results) = 2
  /\ results[1].dbhClass = 100
  /\ results[2].dbhClass = 580

(***************************************************************************)
(* Claims on positional lines of the bulk import (specification SpecBulk). *)
(***************************************************************************)
\* a line with numbers none of which is a breakpoint
IsPositionalLine(line) == Len(NumbersOf(line)) > 0 /\ MatchedVolumeOf(line) = 0

\* the smallest index from `from` on that is not in assigned; past the table
\* when there is none
NextFree(from, assigned) ==
  LET free == {i \in from..Len(LEGACY_AVERAGE_VOLUMES) : i \notin assigned}
  IN  IF free = {} THEN Len(LEGACY_AVERAGE_VOLUMES) + 1
      ELSE CHOOSE i \in free : \A k \in free : i <= k

\* the line processed by this step targets index t with its last number as
\* the price, written when it is strictly positive
TargetsWithLastNumber(line, t) ==
  /\ imp'.st.target = t
  /\ parseNumber(imp'.st.token) = NumbersOf(line)[Len(NumbersOf(line))]
  /\ imp'.st.wrote = (NumbersOf(line)[Len(NumbersOf(line))] > 0)
  /\ imp'.st.wrote => imp'.st.next[t].price = NumbersOf(line)[Len(NumbersOf(line))]

MaxNodes == 3
MaxLogs == 2

\* LogVolume sub-elements: m3sub 0.8, m3sub 0, m3fub 0.5, a category that is
\* not listed 0.7, m3 (price) -0.3
ProbeNodes ==
  {[cat |-> "M3SUB", text |-> Num(0, <<8>>)],
   [cat |-> "M3SUB", text |-> Num(0, <<>>)],
   [cat |-> "M3FUB", text |-> Num(0, <<5>>)],
   [cat |-> "other", text |-> Num(0, <<7>>)],
   [cat |-> "m3 (Price)", text |-> Minus(Num(0, <<3>>))]}

\* attributes of a Log element: none, Volume 0.25, VolumeDm3 300
ProbeLogAttrs ==
  {NoLogAttrs,
   [NoLogAttrs EXCEPT !.Volume = Num(0, <<2, 5>>)],
   [NoLogAttrs EXCEPT !.VolumeDm3 = Num(300, <<>>)]}

ProbeLogs ==
  {[nodes |-> nodes, attrs |-> attrs] :
     nodes \in SeqsUpTo(ProbeNodes, MaxNodes), attrs \in ProbeLogAttrs}

\* a stem of DBH 150 with one log and no tree-level volume
LogFiles ==
  {Doc(<<[BareStem EXCEPT !.DBH = Num(150, <<>>), !.logs = <<logEl>>]>>) :
     logEl \in ProbeLogs}

\* the logs of the stems with tree-level volumes: 0.8, nothing, 300 dm3
StemLogs ==
  {[nodes |-> <<[cat |-> "M3SUB", text |-> Num(0, <<8>>)]>>, attrs |-> NoLogAttrs],
   [nodes |-> <<>>, attrs |-> NoLogAttrs],
   [nodes |-> <<>>, attrs |-> [NoLogAttrs EXCEPT !.VolumeDm3 = Num(300, <<>>)]]}

\* stems of DBH 150 with up to MaxLogs logs, StemVolume absent, 0.20 or
\* -0.3, Volume absent or "0,5", VolumeUnderBark absent or 0.4,
\* VolumeOverBark absent, 0.6 or 0
StemFiles ==
  {Doc(<<[BareStem EXCEPT !.DBH = Num(150, <<>>), !.logs = logs,
                          !.StemVolume = sv, !.Volume = v,
                          !.VolumeUnderBark = ub, !.VolumeOverBark = ob]>>) :
     logs \in SeqsUpTo(StemLogs, MaxLogs),
     sv \in {Absent, Num(0, <<2, 0>>), Minus(Num(0, <<3>>))},
     v \in {Absent, Comma(Num(0, <<5>>))},
     ub \in {Absent, Num(0, <<4>>)},
     ob \in {Absent, Num(0, <<6>>), Num(0, <<>>)}}

NextVolumes ==
  \/ \E file \in LogFiles \cup StemFiles : handleFileUpload(<<file>>)
  \/ handleReset

SpecVolumes == Init /\ [][NextVolumes]_vars

(***************************************************************************)
(* Claims on volumes (specification SpecVolumes).                          *)
(***************************************************************************)
\* the stem element of the uploaded document
UploadedStemEl == last.files[1].stemEls[1]

NoTreeVolume(stemEl) ==
  /\ stemEl.StemVolume = Absent /\ stemEl.Volume = Absent
  /\ stemEl.VolumeUnderBark = Absent /\ stemEl.VolumeOverBark = Absent

\* the strictly positive values of the sub-elements of a log that carry the
\* category, and of all its sub-elements
PositiveOfCategory(logEl, category) ==
  {parseNumber(logEl.nodes[i].text) : i \in
     {k \in 1..Len(logEl.nodes) :
        normaliseCategory(logEl.nodes[k].cat) = category
        /\ parseNumber(logEl.nodes[k].text) > 0}}

PositiveOfNodes(logEl) ==
  {parseNumber(logEl.nodes[i].text) : i \in
     {k \in 1..Len(logEl.nodes) : parseNumber(logEl.nodes[k].text) > 0}}

\* the strictly positive values of the attributes of a log, in cubic metres
PositiveOfAttributes(logEl) ==
  {x \in {parseNumber(logEl.attrs.Volume), parseNumber(logEl.attrs.VolumeM3),
          parseNumber(logEl.attrs.VolumeUnderBark), parseNumber(logEl.attrs.VolumeOverBark),
          parseNumber(logEl.attrs.VolumeDm3) \div 1000,
          parseNumber(logEl.attrs.VolumeDM3) \div 1000} : x > 0}

\* the places in the priority order of the listed categories that have a
\* sub-element with a strictly positive value
PositivePlaces(logEl) ==
  {k \in 1..Len(preferredCategories) : PositiveOfCategory(logEl, preferredCategories[k]) # {}}

\* what the claim asks of the volume resolved for a log
ResolvedAsSpecified(logEl, volume) ==
  IF PositivePlaces(logEl) # {}
  THEN volume \in PositiveOfCategory(logEl,
         preferredCategories[CHOOSE k \in PositivePlaces(logEl) :
                               \A o \in PositivePlaces(logEl) : k <= o])
  ELSE IF PositiveOfNodes(logEl) # {} THEN volume \in PositiveOfNodes(logEl)
  ELSE IF PositiveOfAttributes(logEl) # {} THEN volume \in PositiveOfAttributes(logEl)
  ELSE volume = 0

\* C24: the volume resolved for a log is the value of a sub-element of the
\* highest-priority listed category for which the log has any sub-element
\* with a strictly positive value; a sub-element of an unlisted category, or
\* an attribute, is used only when no listed category has one, and the
\* result is zero only when the log has no strictly positive value at all.
C24_HighestPriorityPositiveCategory ==
  (/\ last.op = "upload"
   /\ Len(UploadedStemEl.logs) = 1
   /\ NoTreeVolume(UploadedStemEl)) =>
    /\ Len(stems) = 1
    /\ ResolvedAsSpecified(UploadedStemEl.logs[1], stems[1].stem_volume)
    /\ ResolvedAsSpecified(UploadedStemEl.logs[1], resolveLogVolume(UploadedStemEl.logs[1]))

\* the tree-level volume candidates of a stem element, in the order tried
TreeVolumes(stemEl) ==
  <<parseNumber(stemEl.StemVolume), parseNumber(stemEl.Volume),
    parseNumber(stemEl.VolumeUnderBark), parseNumber(stemEl.VolumeOverBark)>>

\* the first strictly positive tree-level candidate, zero when there is none
FirstPositiveTreeVolume(stemEl) ==
  LET positive == {k \in 1..4 : TreeVolumes(stemEl)[k] > 0}
  IN  IF positive = {} THEN 0
      ELSE TreeVolumes(stemEl)[CHOOSE k \in positive : \A o \in positive : k <= o]

\* the sum of the volumes resolved for the logs of a stem element
LogVolumeSum(stemEl) ==
  SumSeq([i \in 1..Len(stemEl.logs) |-> resolveLogVolume(stemEl.logs[i])])

\* C25: the volume of a record is the sum of the resolved volumes of its
\* logs whenever that sum is strictly positive, whatever the tree-level
\* attributes; otherwise the first strictly positive value among StemVolume,
\* Volume, VolumeUnderBark and VolumeOverBark in this order; otherwise zero.
\* The volume of a record is never negative.
C25_LogSumBeforeTreeVolume ==
  /\ \A i \in 1..Len(stems) : stems[i].stem_volume >= 0
  /\ last.op = "upload" =>
       /\ Len(stems) = 1
       /\ stems[1].stem_volume =
            (IF LogVolumeSum(UploadedStemEl) > 0 THEN LogVolumeSum(UploadedStemEl)
             ELSE FirstPositiveTreeVolume(UploadedStemEl))

\* two logs of 0.8 and 300 dm3 on a stem with StemVolume 0.20: the record
\* carries 1.1
C25_Witness ==
  /\ last.op = "upload"
  /\ Len(UploadedStemEl.logs) = 2
  /\ LogVolumeSum(UploadedStemEl) = 110
  /\ UploadedStemEl.StemVolume = Num(0, <<2, 0>>)
  /\ Len(stems) = 1
  /\ stems[1].stem_volume = 110

(***************************************************************************)
(* Uploads as they run on the event loop.  processFiles is an async        *)
(* function: it runs to its first await, the files are read while the page *)
(* keeps handling events, and its writes follow the last read.  The upload *)
(* zone and both Reset buttons stay on the page in the meantime.  The      *)
(* recalculation effect of the render that follows the writes is queued    *)
(* and runs as a step of its own; React flushes a queued effect before it  *)
(* handles the next event or renders again.                                *)
(*   SpecAsync  uploads in flight with Reset and Upload another file.      *)
(*   SpecLive   the same with edits of the tables and settings and a bulk  *)
(*              import; a queued effect is eventually run.                 *)
(***************************************************************************)
\* uploads that may be in flight together
MaxPending == 2

\* the records parsed from the selected files alone
ParsedOf(selectedFiles) == ParseAll(selectedFiles, [stems |-> <<>>, logCount |-> 0]).stems

\* processFiles up to its first await: the status line is set, and the
\* dataset and log count of the current render stay in the closure
processFilesBegin(selectedFiles) ==
  /\ imp.pc = "idle"
  /\ ~hasUploaded
  /\ Len(selectedFiles) > 0
  /\ Cardinality(jobs.uploads) < MaxPending
  /\ statusInfo' = Status("filesSelected", Len(selectedFiles), 0)
  /\ jobs' = [jobs EXCEPT !.uploads = @ \cup
                {[files |-> selectedFiles,
                  append |-> (build = "part_000" /\ shouldAppend),
                  stems |-> stems,
                  logCount |-> totalLogCount]}]
  /\ last' = NoUpload
  /\ UNCHANGED <<build, stems, totalLogCount, hasUploaded, shouldAppend,
                 calcVars, tableVars, pasteVars>>

\* the dataset an upload in flight writes: its closure's dataset when it
\* appends, then the records of its files
CombinedOf(upload) ==
  ParseAll(upload.files,
           [stems |-> IF upload.append THEN upload.stems ELSE <<>>,
            logCount |-> IF upload.append THEN upload.logCount ELSE 0])

\* processFiles after its last await, and the statement of handleFileUpload
\* that follows it; an effect still queued is flushed before the render
processFilesEnd(upload) ==
  /\ upload \in jobs.uploads
  /\ Len(CombinedOf(upload).stems) <= MaxStems
  /\ stems' = CombinedOf(upload).stems
  /\ totalLogCount' = (IF build = "part_000" THEN CombinedOf(upload).logCount ELSE 0)
  /\ IF Len(CombinedOf(upload).stems) > 0
     THEN /\ statusInfo' = Status("parsed", Len(CombinedOf(upload).stems),
                                  CombinedOf(upload).logCount)
          /\ hasUploaded' = TRUE
     ELSE /\ statusInfo' = Status("noStems", 0, 0)
          /\ hasUploaded' = FALSE
  /\ shouldAppend' = FALSE
  /\ IF jobs.effect
     THEN RecalculateEffect(stems, params, speciesDivisors, legacyPrices)
     ELSE UNCHANGED calcVars
  /\ jobs' = [uploads |-> jobs.uploads \ {upload}, effect |-> TRUE]
  /\ last' = [op |-> "upload", prev |-> stems, parsed |-> ParsedOf(upload.files),
              files |-> upload.files]
  /\ UNCHANGED <<build, tableVars, pasteVars>>

\* C26 mutant: the queued effect is dropped without running calculateResults
useEffectRun_Dropped ==
  /\ jobs.effect
  /\ jobs' = [jobs EXCEPT !.effect = FALSE]
  /\ UNCHANGED <<build, dataVars, calcVars, tableVars, pasteVars, last>>

\* the queued effect runs: calculateResults when the dataset is not empty
useEffectRun ==
  /\ jobs.effect
  /\ RecalculateEffect(stems, params, speciesDivisors, legacyPrices)
  /\ jobs' = [jobs EXCEPT !.effect = FALSE]
  /\ UNCHANGED <<build, dataVars, tableVars, pasteVars, last>>

\* no effect is queued: the page handles the next event
Flushed == ~jobs.effect

AsyncBatches == {<<FileSpruce>>, <<FilePine>>, <<FileEmpty>>}

NextAsync ==
  \/ \E files \in AsyncBatches : processFilesBegin(files)
  \/ \E upload \in jobs.uploads : processFilesEnd(upload)
  \/ useEffectRun
  \/ Flushed /\ handleReset
  \/ Flushed /\ handleAddMoreFiles

SpecAsync == Init /\ [][NextAsync]_vars


(***************************************************************************)
(* Claims on uploads in flight (specification SpecAsync).                  *)
(***************************************************************************)
\* C27: writes to the dataset never interleave.  While an upload is between
\* its start and its final write no other upload is in flight and nothing
\* has changed the dataset, so the final write is computed from the dataset
\* as it is at the moment of the write: the records it holds when the upload
\* appends, followed by the records parsed from the files.
C27_UploadWritesNeverInterleave ==
  [][\A upload \in jobs.uploads :
       processFilesEnd(upload) =>
         /\ jobs.uploads = {upload}
         /\ upload.stems = stems
         /\ stems' = (IF upload.append THEN stems ELSE <<>>) \o ParsedOf(upload.files)]_vars

\* C28: whenever the dataset is empty, the result rows are empty and both
\* totals are absent: no results survive from an earlier dataset.
C28_EmptyDatasetHasNoResults ==
  Len(stems) = 0 => (results = <<>> /\ newTotals = None /\ oldModelSummary = None)

\* C29: after Reset the dataset, the result rows and both totals stay empty
\* and the uploaded flag stays down until a new upload is started: a step
\* that follows Reset and starts no upload leaves them so.
C29_ResetHoldsUntilNewUpload ==
  [][(/\ last.op = "reset"
      /\ ~(\E files \in AsyncBatches : processFilesBegin(files)))
     => /\ stems' = <<>>
        /\ results' = <<>>
        /\ newTotals' = None
        /\ oldModelSummary' = None
        /\ ~hasUploaded']_vars


LiveBatches == {<<FileSpruce>>, <<FileEmpty>>}

\* the text typed into the paste panel: 0.25 115
LiveText == <<<<Num(0, <<2, 5>>), Num(115, <<>>)>>>>

LiveClip == [kind |-> "text", text |-> <<<<Num(110, <<>>)>>>>]

\* the updater of a bulk import runs inside one handler or render: nothing
\* else runs before it has returned
NextLive ==
  \/ \E files \in LiveBatches : processFilesBegin(files)
  \/ imp.pc = "idle" /\ \E upload \in jobs.uploads : processFilesEnd(upload)
  \/ imp.pc = "idle" /\ useEffectRun
  \/ Flushed /\ handleReset
  \/ Flushed /\ updateDivisor("Gran", 5, Num(20, <<>>))
  \/ Flushed /\ setLegacyPrice(1, Num(110, <<>>))
  \/ Flushed /\ setParam("harvestingCostRate", Num(900, <<>>))
  \/ Flushed /\ handlePastePrices(LiveClip)
  \/ Flushed /\ bulkPriceText = <<>> /\ setBulkPriceText(LiveText)
  \/ Flushed /\ handleApplyBulkPricing
  \/ ImportLine
  \/ ImportFinish

\* the step that takes the queued effect off the queue: of the actions of
\* NextLive only useEffectRun takes it, and it can whenever an effect is queued
EffectTaken == jobs.effect /\ jobs' = [jobs EXCEPT !.effect = FALSE]

\* React runs a queued effect once the browser has painted
SpecLive == InitBulk /\ [][NextLive]_vars /\ WF_jobs(EffectTaken)

(***************************************************************************)
(* Claims on the recalculation and on Reset (specification SpecLive).      *)
(***************************************************************************)
\* the stored rows and totals are those of a run on the current inputs
ResultsCurrent ==
  /\ calculateResults(stems, params, speciesDivisors, legacyPrices).ran
  /\ results = calculateResults(stems, params, speciesDivisors, legacyPrices).results
  /\ newTotals = calculateResults(stems, params, speciesDivisors, legacyPrices).newTotals
  /\ oldModelSummary =
       calculateResults(stems, params, speciesDivisors, legacyPrices).oldModelSummary

\* C26: while the dataset is not empty, every change of the dataset, a
\* setting, a divisor cell or a legacy price (typed or imported) is
\* eventually followed by a recalculation: from every state with a dataset
\* the page reaches a state whose rows and both totals are those
\* calculateResults gives for the dataset, settings, divisors and legacy
\* prices of that state, unless the dataset has been emptied before.
C26_RecalculationFollowsChange ==
  [](Len(stems) > 0 => <>(Len(stems) = 0 \/ ResultsCurrent))

\* an upload has written a dataset after a price, a divisor and a setting
\* were changed; the effect is queued and the rows are not yet those of the
\* current inputs
C26_Witness ==
  /\ Len(stems) > 0
  /\ jobs.effect
  /\ ~ResultsCurrent
  /\ legacyPrices[1].price = 11000
  /\ params.harvestingCostRate = 90000

\* what Reset clears
ResetCleared ==
  /\ stems' = <<>>
  /\ statusInfo' = NoStatus
  /\ results' = <<>>
  /\ newTotals' = None
  /\ oldModelSummary' = None
  /\ hasUploaded' = FALSE
  /\ totalLogCount' = 0
  /\ shouldAppend' = FALSE

\* C30: Reset clears the dataset, the status, the result rows, both totals,
\* the uploaded flag, the log count and the append flag, and leaves the
\* divisor table, the legacy price table, the settings and the paste text
\* unchanged.
C30_ResetClearsDataKeepsTables ==
  [][handleReset =>
       /\ ResetCleared
       /\ UNCHANGED <<speciesDivisors, legacyPrices, params, bulkPriceText>>]_vars

\* Reset was just pressed with an edited divisor cell, an edited legacy
\* price, an edited setting and a text in the paste panel
C30_Witness ==
  /\ last.op = "reset"
  /\ stems = <<>>
  /\ results = <<>>
  /\ newTotals = None
  /\ speciesDivisors["Gran"][5] = Some(2000)
  /\ legacyPrices[1].price > 0
  /\ params.harvestingCostRate # DefaultParams.harvestingCostRate
  /\ bulkPriceText # <<>>

=============================================================================
